---- MODULE Spec2Model ----
(***************************************************************************)
(* A model of the BEACON exchange canister (taggrx/beacon): the order book *)
(* engine of src/backend/order_book/mod.rs and the update entry points of  *)
(* src/backend/updates.rs.                                                 *)
(*                                                                         *)
(* The engine state (struct State) is one record, `s`.  Every method of    *)
(* State is an operator from a state record (and arguments) to a record    *)
(* [st, res, ...] holding the state the method leaves behind and its       *)
(* result: "ok", the text of the Err it returns, or "panic: ..." for a     *)
(* failed assert / expect / unwrap.  The update entry points are the       *)
(* actions; an entry point that traps leaves the canister state as it was  *)
(* before the message.                                                     *)
(***************************************************************************)
EXTENDS Integers, Sequences, FiniteSets, TLC

VARIABLES s, now, last, steps, ledger, calls

vars == <<s, now, last, steps, ledger, calls>>

\* the token ledgers and the calls to them that are in flight
custody == <<ledger, calls>>

----------------------------------------------------------------------------
(* Program constants *)

PAYMENT_TOKEN_ID == 0

TX_FEE == 20

MAX_ORDERS_PER_HOUR == 15

\* The model's clock counts units of three minutes, so an hour is 20 units.
HOUR == 20

Buy == "Buy"
Sell == "Sell"

\* Option<Principal>::None for the revenue account; principals are 1, 2, ...
NoPrincipal == 0

----------------------------------------------------------------------------
(* Bounds of the model *)

\* the clock runs from 0 to MaxTime
MaxTime == 1

\* number of messages that complete in one behaviour
MaxSteps == 6

\* the principals that trade, and the principal that collects the fees
Traders == {1, 2}

REVENUE == 3

Users == Traders \cup {REVENUE}

\* the one token listed next to the payment token
TOKEN == 1

TokenIds == {PAYMENT_TOKEN_ID, TOKEN}

----------------------------------------------------------------------------
(* Arithmetic helpers *)

Max(a, b) == IF a >= b THEN a ELSE b

RECURSIVE Pow10(_)
Pow10(n) == IF n = 0 THEN 1 ELSE 10 * Pow10(n - 1)

RECURSIVE checked_sum(_)
\* the sum of the values of a map
checked_sum(m) ==
    IF DOMAIN m = {} THEN 0
    ELSE LET k == CHOOSE x \in DOMAIN m : TRUE
         IN m[k] + checked_sum([x \in DOMAIN m \ {k} |-> m[x]])

RECURSIVE SumAmounts(_)
SumAmounts(q) == IF q = <<>> THEN 0 ELSE Head(q).amount + SumAmounts(Tail(q))

----------------------------------------------------------------------------
(* BTreeMap *)

Has(m, k) == k \in DOMAIN m

Put(m, k, v) == [x \in DOMAIN m \cup {k} |-> IF x = k THEN v ELSE m[x]]

Remove(m, k) == [x \in DOMAIN m \ {k} |-> m[x]]

Get(m, k, default) == IF k \in DOMAIN m THEN m[k] ELSE default

EmptyMap == [x \in {} |-> 0]

----------------------------------------------------------------------------
(* Order *)

Order(order_type, owner, amount, price, timestamp, decimals, payment_token_fee) ==
    [order_type |-> order_type, owner |-> owner, amount |-> amount, price |-> price,
     timestamp |-> timestamp, executed |-> 0, decimals |-> decimals,
     payment_token_fee |-> payment_token_fee]

\* The u128 of the model has 16 bits.
U128_MAX == 65535

\* u128 arithmetic that is not checked, in a build without overflow checks
wrapping(n) == n % (U128_MAX + 1)

\* a variant that forgets the token's decimals
volume_unscaled(o) == o.amount * o.price

\* checked_mul(...).expect("overflow") panics
volume_overflows(o) == o.amount * o.price > U128_MAX

\* defined where volume_overflows(o) is false
volume(o) == (o.amount * o.price) \div Pow10(o.decimals)

\* a variant that computes the fee in unbounded integers
trading_fee_unbounded(fee, vol) == Max((vol * TX_FEE) \div fee, 1)

trading_fee(fee, vol) == Max(wrapping(vol * TX_FEE) \div fee, 1)

\* a variant in which a buy order reserves its volume without the fee
reserved_liquidity_no_fee(o) == IF o.order_type = Buy THEN volume(o) ELSE o.amount

reserved_liquidity(o) ==
    IF o.order_type = Buy
    THEN wrapping(volume(o) + trading_fee(o.payment_token_fee, volume(o)))
    ELSE o.amount

\* The unchecked operations of create_order on the order o (`volume * TX_FEE`,
\* `volume + fee`, `fee * 10`) leave u128: a build with overflow checks panics
\* where a build without them wraps.
arithmetic_overflows(o) ==
    /\ ~volume_overflows(o)
    /\ \/ volume(o) * TX_FEE > U128_MAX
       \/ /\ o.order_type = Buy
          /\ volume(o) + trading_fee(o.payment_token_fee, volume(o)) > U128_MAX
       \/ trading_fee(o.payment_token_fee, volume(o)) * 10 > U128_MAX

\* Ord for Order: -1 (Less), 0 (Equal), 1 (Greater); defined for two orders of
\* the same order_type and the same executed only
cmp(a, b) ==
    IF a.price # b.price THEN (IF a.price < b.price THEN -1 ELSE 1)
    ELSE IF a.timestamp # b.timestamp THEN (IF a.timestamp < b.timestamp THEN -1 ELSE 1)
    ELSE IF a.amount # b.amount THEN (IF a.amount < b.amount THEN -1 ELSE 1)
    ELSE IF a.owner # b.owner THEN (IF a.owner < b.owner THEN -1 ELSE 1)
    ELSE 0

cmp_defined(a, b) == a.order_type = b.order_type /\ a.executed = b.executed

----------------------------------------------------------------------------
(* BTreeSet<Order>: a set of orders no two of which compare Equal *)

set_contains(S, o) == \E x \in S : cmp(x, o) = 0

set_get(S, o) == CHOOSE x \in S : cmp(x, o) = 0

set_insert(S, o) == IF set_contains(S, o) THEN S ELSE S \cup {o}

pop_first(S) == CHOOSE x \in S : \A y \in S : cmp(x, y) <= 0

pop_last(S) == CHOOSE x \in S : \A y \in S : cmp(x, y) >= 0

EmptyBook == [buyers |-> {}, sellers |-> {}]

Side(book, order_type) == IF order_type = Buy THEN book.buyers ELSE book.sellers

\* a variant that writes the other side of the book
WithSide_crossed(book, order_type, S) ==
    IF order_type = Buy THEN [book EXCEPT !.sellers = S] ELSE [book EXCEPT !.buyers = S]

WithSide(book, order_type, S) ==
    IF order_type = Buy THEN [book EXCEPT !.buyers = S] ELSE [book EXCEPT !.sellers = S]

Metadata(fee, decimals, timestamp) ==
    [fee |-> fee, decimals |-> decimals, timestamp |-> timestamp]

RECURSIVE sum_reserved(_)
\* checked_sum over the reserved liquidity of the orders of a set
sum_reserved(S) ==
    IF S = {} THEN 0
    ELSE LET x == CHOOSE y \in S : TRUE IN reserved_liquidity(x) + sum_reserved(S \ {x})

----------------------------------------------------------------------------
(* State *)

\* State::default()
EmptyState ==
    [orders |-> EmptyMap, order_archive |-> EmptyMap, pools |-> EmptyMap,
     tokens |-> EmptyMap, revenue_account |-> NoPrincipal, order_activity |-> EmptyMap]

Res(S, r) == [st |-> S, res |-> r]

IsPanic(r) == r \in {"panic: no orders for payment tokens are possible",
                     "panic: dust orders are not supported",
                     "panic: order overwritten", "panic: underflow",
                     "panic: freed liquidity on a buy trade",
                     "panic: no revenue account set", "panic: same order type",
                     "panic: overflow"}

record_activity(S, token, principal, time) ==
    IF ~Has(S.tokens, token) THEN Res(S, "token not listed")
    ELSE LET S1 == [S EXCEPT !.tokens[token].timestamp = time] IN
         IF Has(S.order_activity, principal)
         THEN LET records == {t \in S.order_activity[principal] : t + HOUR >= time} IN
              IF Cardinality(records) >= MAX_ORDERS_PER_HOUR
              THEN Res([S1 EXCEPT !.order_activity[principal] = records],
                       "too many orders within one hour; please try again later")
              ELSE Res([S1 EXCEPT !.order_activity[principal] = records \cup {time}], "ok")
         ELSE Res([S1 EXCEPT !.order_activity = Put(@, principal, {})], "ok")

token_pool_balance(S, token, user) ==
    IF Has(S.pools, token) THEN Get(S.pools[token], user, 0) ELSE 0

\* a variant that credits one unit less
add_liquidity_short(S, user, id, amount) ==
    LET pool == Get(S.pools, id, EmptyMap)
    IN [S EXCEPT !.pools = Put(@, id, Put(pool, user, Get(pool, user, 0) + amount - 1))]

add_liquidity(S, user, id, amount) ==
    LET pool == Get(S.pools, id, EmptyMap)
    IN [S EXCEPT !.pools = Put(@, id, Put(pool, user, Get(pool, user, 0) + amount))]

\* a variant that empties the pool entry and leaves it in the pool
withdraw_liquidity_keeps_entry(S, user, id) ==
    IF ~Has(S.pools, id) THEN [st |-> S, res |-> "no token found", amount |-> 0]
    ELSE IF ~Has(S.pools[id], user)
         THEN [st |-> S, res |-> "nothing to withdraw", amount |-> 0]
         ELSE [st |-> [S EXCEPT !.pools[id][user] = 0], res |-> "ok",
               amount |-> S.pools[id][user]]

\* a variant that takes the balances of every principal in the pool
withdraw_liquidity_clears_pool(S, user, id) ==
    IF ~Has(S.pools, id) THEN [st |-> S, res |-> "no token found", amount |-> 0]
    ELSE IF ~Has(S.pools[id], user)
         THEN [st |-> S, res |-> "nothing to withdraw", amount |-> 0]
         ELSE [st |-> [S EXCEPT !.pools[id] = EmptyMap], res |-> "ok",
               amount |-> S.pools[id][user]]

\* a variant that reads the balance and leaves the entry in the pool
withdraw_liquidity_reads(S, user, id) ==
    IF ~Has(S.pools, id) THEN [st |-> S, res |-> "no token found", amount |-> 0]
    ELSE IF ~Has(S.pools[id], user)
         THEN [st |-> S, res |-> "nothing to withdraw", amount |-> 0]
         ELSE [st |-> S, res |-> "ok", amount |-> S.pools[id][user]]

withdraw_liquidity(S, user, id) ==
    IF ~Has(S.pools, id) THEN [st |-> S, res |-> "no token found", amount |-> 0]
    ELSE IF ~Has(S.pools[id], user)
         THEN [st |-> S, res |-> "nothing to withdraw", amount |-> 0]
         ELSE [st |-> [S EXCEPT !.pools[id] = Remove(@, user)], res |-> "ok",
               amount |-> S.pools[id][user]]

\* a variant that reserves in the payment pool for both order types
reserving_pool_payment(token, order_type) == PAYMENT_TOKEN_ID

reserving_pool(token, order_type) == IF order_type = Buy THEN PAYMENT_TOKEN_ID ELSE token

\* a variant that refunds the caller although no order is found
close_order_refunds_unknown(S, user, token, amount, price, timestamp, order_type) ==
    IF ~Has(S.orders, token) THEN Res(S, "no token found")
    ELSE LET orders == Side(S.orders[token], order_type)
             key == Order(order_type, user, amount, price, timestamp, 0, 0)
         IN IF ~set_contains(orders, key)
            THEN Res(add_liquidity(S, user, reserving_pool(token, order_type), amount),
                     "no order found")
            ELSE LET order == set_get(orders, key)
                     S1 == [S EXCEPT !.orders[token] =
                                WithSide(@, order_type, orders \ {order})]
                 IN Res(add_liquidity(S1, user, reserving_pool(token, order_type),
                                      reserved_liquidity(order)), "ok")

\* a variant that looks the order up without its owner
close_order_of_anyone(S, user, token, amount, price, timestamp, order_type) ==
    IF ~Has(S.orders, token) THEN Res(S, "no token found")
    ELSE LET orders == Side(S.orders[token], order_type)
             found == {x \in orders : x.price = price /\ x.timestamp = timestamp
                                      /\ x.amount = amount}
         IN IF found = {} THEN Res(S, "no order found")
            ELSE LET order == pop_first(found)
                     S1 == [S EXCEPT !.orders[token] =
                                WithSide(@, order_type, orders \ {order})]
                 IN Res(add_liquidity(S1, user, reserving_pool(token, order_type),
                                      reserved_liquidity(order)), "ok")

close_order(S, user, token, amount, price, timestamp, order_type) ==
    IF ~Has(S.orders, token) THEN Res(S, "no token found")
    ELSE LET orders == Side(S.orders[token], order_type)
             key == Order(order_type, user, amount, price, timestamp, 0, 0)
         IN IF ~set_contains(orders, key) THEN Res(S, "no order found")
            ELSE LET order == set_get(orders, key)
                     S1 == [S EXCEPT !.orders[token] =
                                WithSide(@, order_type, orders \ {order})]
                 IN Res(add_liquidity(S1, user, reserving_pool(token, order_type),
                                      reserved_liquidity(order)), "ok")

\* a variant that debits the pool although an equal order is open
create_order_debits_again(S, user, token, amount, price, timestamp, order_type) ==
    IF price = 0 THEN Res(S, "limit price is 0")
    ELSE LET a == record_activity(S, token, user, timestamp) IN
    IF a.res # "ok" THEN a
    ELSE IF token = PAYMENT_TOKEN_ID
    THEN Res(a.st, "panic: no orders for payment tokens are possible")
    ELSE IF ~Has(a.st.tokens, PAYMENT_TOKEN_ID) THEN Res(a.st, "payment token not listed")
    ELSE LET metadata == a.st.tokens[token]
             order == Order(order_type, user, amount, price, timestamp,
                            metadata.decimals, a.st.tokens[PAYMENT_TOKEN_ID].fee)
             \* self.orders.entry(token).or_default()
             S1 == [a.st EXCEPT !.orders = Put(@, token, Get(@, token, EmptyBook))]
             pool_id == reserving_pool(token, order_type)
         IN IF ~Has(S1.pools, pool_id) THEN Res(S1, "no token found")
            ELSE IF ~Has(S1.pools[pool_id], user) THEN Res(S1, "no funds available")
            ELSE LET token_balance == S1.pools[pool_id][user]
                     required_liquidity == reserved_liquidity(order)
                     vol == volume(order)
                     fee == trading_fee(order.payment_token_fee, vol)
                     side == Side(S1.orders[token], order_type)
                 IN IF required_liquidity > token_balance
                    THEN Res(S1, "not enough funds available for this order size")
                    ELSE IF fee * 10 > vol THEN Res(S1, "the order is too small")
                    ELSE Res([S1 EXCEPT
                                 !.orders[token] = WithSide(@, order_type, side \cup {order}),
                                 !.pools[pool_id][user] = token_balance - required_liquidity],
                             "ok")

create_order(S, user, token, amount, price, timestamp, order_type) ==
    IF price = 0 THEN Res(S, "limit price is 0")
    ELSE LET a == record_activity(S, token, user, timestamp) IN
    IF a.res # "ok" THEN a
    ELSE IF token = PAYMENT_TOKEN_ID
    THEN Res(a.st, "panic: no orders for payment tokens are possible")
    ELSE IF ~Has(a.st.tokens, PAYMENT_TOKEN_ID) THEN Res(a.st, "payment token not listed")
    ELSE LET metadata == a.st.tokens[token]
             order == Order(order_type, user, amount, price, timestamp,
                            metadata.decimals, a.st.tokens[PAYMENT_TOKEN_ID].fee)
             \* self.orders.entry(token).or_default()
             S1 == [a.st EXCEPT !.orders = Put(@, token, Get(@, token, EmptyBook))]
             pool_id == reserving_pool(token, order_type)
         IN IF ~Has(S1.pools, pool_id) THEN Res(S1, "no token found")
            ELSE IF ~Has(S1.pools[pool_id], user) THEN Res(S1, "no funds available")
            ELSE LET token_balance == S1.pools[pool_id][user]
                     required_liquidity == reserved_liquidity(order)
                     vol == volume(order)
                     fee == trading_fee(order.payment_token_fee, vol)
                     side == Side(S1.orders[token], order_type)
                 IN IF order_type = Buy /\ volume_overflows(order)
                    THEN Res(S1, "panic: overflow")
                    ELSE IF required_liquidity > token_balance
                    THEN Res(S1, "not enough funds available for this order size")
                    ELSE IF volume_overflows(order) THEN Res(S1, "panic: overflow")
                    ELSE IF wrapping(fee * 10) > vol THEN Res(S1, "the order is too small")
                    ELSE IF set_contains(side, order) THEN Res(S1, "order exists already")
                    ELSE Res([S1 EXCEPT
                                 !.orders[token] = WithSide(@, order_type, side \cup {order}),
                                 !.pools[pool_id][user] = token_balance - required_liquidity],
                             "ok")

\* the managed funds of every token that has a pool
funds_under_management(S) ==
    [id \in DOMAIN S.pools |->
        checked_sum(S.pools[id])
        + IF id = PAYMENT_TOKEN_ID
          THEN checked_sum([t \in DOMAIN S.orders |-> sum_reserved(S.orders[t].buyers)])
          ELSE IF Has(S.orders, id) THEN sum_reserved(S.orders[id].sellers) ELSE 0]

----------------------------------------------------------------------------
(* Settlement *)

\* Returns [pools, res]; like the code it has changed the pools it was given
\* up to the point where it returns an Err.
adjust_pools(pools, trader, token, order, revenue_account, trade_type) ==
    LET payment_receiver == IF trade_type = Buy THEN order.owner ELSE trader
        token_receiver == IF trade_type = Buy THEN trader ELSE order.owner
        vol == volume(order)
        fee == trading_fee(order.payment_token_fee, vol)
    IN
    IF order.order_type = trade_type THEN [pools |-> pools, res |-> "panic: same order type"]
    ELSE IF ~Has(pools, token) THEN [pools |-> pools, res |-> "no token pool found"]
    ELSE LET \* token_pool.entry(payment_receiver).or_insert(0) on a selling trade
             p1 == IF trade_type = Sell
                   THEN [pools EXCEPT ![token] = Put(@, payment_receiver,
                                                     Get(@, payment_receiver, 0))]
                   ELSE pools
         IN
         IF trade_type = Sell /\ p1[token][payment_receiver] < order.amount
         THEN [pools |-> p1, res |-> "not enough tokens"]
         ELSE LET p2 == IF trade_type = Sell
                        THEN [p1 EXCEPT ![token][payment_receiver] = @ - order.amount]
                        ELSE p1
                  p3 == [p2 EXCEPT ![token] = Put(@, token_receiver,
                                                  Get(@, token_receiver, 0) + order.amount)]
              IN
              IF ~Has(p3, PAYMENT_TOKEN_ID) THEN [pools |-> p3, res |-> "no payment pool found"]
              ELSE IF trade_type = Buy /\ ~Has(p3[PAYMENT_TOKEN_ID], token_receiver)
              THEN [pools |-> p3, res |-> "no payment tokens"]
              ELSE IF trade_type = Buy /\ p3[PAYMENT_TOKEN_ID][token_receiver] < vol + fee
              THEN [pools |-> p3, res |-> "not enough payment tokens"]
              ELSE LET p4 == IF trade_type = Buy
                             THEN [p3 EXCEPT ![PAYMENT_TOKEN_ID][token_receiver] =
                                                 @ - (vol + fee)]
                             ELSE p3
                       \* payment_token_pool.entry(payment_receiver).or_default()
                       p5 == [p4 EXCEPT ![PAYMENT_TOKEN_ID] =
                                 Put(@, payment_receiver, Get(@, payment_receiver, 0))]
                   IN
                   IF vol < fee THEN [pools |-> p5, res |-> "amount smaller than fee"]
                   ELSE LET p6 == [p5 EXCEPT ![PAYMENT_TOKEN_ID][payment_receiver] =
                                                 @ + (vol - fee)]
                            p7 == [p6 EXCEPT ![PAYMENT_TOKEN_ID] =
                                      Put(@, revenue_account,
                                          Get(@, revenue_account, 0) + 2 * fee)]
                        IN [pools |-> p7, res |-> "ok"]

----------------------------------------------------------------------------
(* Matching *)

\* Option<ParticlesPerToken>: <<>> is None, <<p>> is Some(p)
then_some(cond, value) == IF cond THEN <<value>> ELSE <<>>

\* a variant without the limit check
outside_limit_never(trade_type, limit, order) == FALSE

\* a variant that stops at an order whose price equals the limit
outside_limit_or_equal(trade_type, limit, order) ==
    /\ limit # <<>>
    /\ \/ trade_type = Buy /\ limit[1] <= order.price
       \/ trade_type = Sell /\ limit[1] >= order.price

outside_limit(trade_type, limit, order) ==
    /\ limit # <<>>
    /\ \/ trade_type = Buy /\ limit[1] < order.price
       \/ trade_type = Sell /\ limit[1] > order.price

\* a variant that forgets the reservation of the filled piece
split_order_forgets_piece(S, trade_type, token, order, amount) ==
    LET prev_reserved_liquidity == reserved_liquidity(order)
        remaining_order == [order EXCEPT !.amount = order.amount - amount]
        vol == volume(remaining_order)
        fee == trading_fee(remaining_order.payment_token_fee, vol)
        new_reserved_liquidity == reserved_liquidity(remaining_order)
        orders == Side(S.orders[token], order.order_type)
        piece == [order EXCEPT !.amount = amount]
        S1 == [S EXCEPT !.orders[token] =
                  WithSide(@, order.order_type, orders \cup {remaining_order})]
        freed_liquidity ==
            prev_reserved_liquidity - new_reserved_liquidity
        out(st, r) == [st |-> st, res |-> r, piece |-> piece, freed |-> freed_liquidity]
    IN IF ~(vol > fee) THEN out(S, "panic: dust orders are not supported")
       ELSE IF set_contains(orders, remaining_order) THEN out(S, "panic: order overwritten")
       ELSE IF freed_liquidity < 0 THEN out(S1, "panic: underflow")
       ELSE IF freed_liquidity > 0
            THEN IF ~(trade_type = Sell /\ order.order_type = Buy)
                 THEN out(S1, "panic: freed liquidity on a buy trade")
                 ELSE IF Has(S1.pools, PAYMENT_TOKEN_ID)
                         /\ Has(S1.pools[PAYMENT_TOKEN_ID], order.owner)
                      THEN out([S1 EXCEPT !.pools[PAYMENT_TOKEN_ID][order.owner] =
                                              @ + freed_liquidity], "ok")
                      ELSE out(S1, "ok")
            ELSE out(S1, "ok")

\* The split of a partial fill: `order` was popped from S.orders[token] and is
\* larger than `amount`.  Returns the state with the remainder inserted and the
\* freed liquidity credited, the filled piece and the freed liquidity.
split_order(S, trade_type, token, order, amount) ==
    LET prev_reserved_liquidity == reserved_liquidity(order)
        remaining_order == [order EXCEPT !.amount = order.amount - amount]
        vol == volume(remaining_order)
        fee == trading_fee(remaining_order.payment_token_fee, vol)
        new_reserved_liquidity == reserved_liquidity(remaining_order)
        orders == Side(S.orders[token], order.order_type)
        piece == [order EXCEPT !.amount = amount]
        S1 == [S EXCEPT !.orders[token] =
                  WithSide(@, order.order_type, orders \cup {remaining_order})]
        freed_liquidity ==
            prev_reserved_liquidity - (new_reserved_liquidity + reserved_liquidity(piece))
        out(st, r) == [st |-> st, res |-> r, piece |-> piece, freed |-> freed_liquidity]
    IN IF ~(vol > fee) THEN out(S, "panic: dust orders are not supported")
       ELSE IF set_contains(orders, remaining_order) THEN out(S, "panic: order overwritten")
       ELSE IF freed_liquidity < 0 THEN out(S1, "panic: underflow")
       ELSE IF freed_liquidity > 0
            THEN IF ~(trade_type = Sell /\ order.order_type = Buy)
                 THEN out(S1, "panic: freed liquidity on a buy trade")
                 ELSE IF Has(S1.pools, PAYMENT_TOKEN_ID)
                         /\ Has(S1.pools[PAYMENT_TOKEN_ID], order.owner)
                      THEN out([S1 EXCEPT !.pools[PAYMENT_TOKEN_ID][order.owner] =
                                              @ + freed_liquidity], "ok")
                      ELSE out(S1, "ok")
            ELSE out(S1, "ok")

\* One fill: the popped `order`, split (sp) if it is larger than the amount
\* left, is settled (adj) and archived.  L = [st, amount, filled, fills, res];
\* fills lists, per filled order, the piece settled, the order it comes from
\* and the pools right before and right after its settlement.
\* stop: the loop has reached a `break` or a return
archive_fill(L, sp, adj, order, token, amount, time) ==
    [st |-> [sp.st EXCEPT !.pools = adj.pools,
                          !.order_archive[token] =
                              <<[sp.piece EXCEPT !.executed = time]>> \o @],
     amount |-> amount,
     filled |-> L.filled + sp.piece.amount,
     fills |-> Append(L.fills, [order |-> sp.piece, whole |-> order,
                                partial |-> order.amount > L.amount,
                                freed |-> sp.freed, presplit |-> L.st.pools,
                                before |-> sp.st.pools, after |-> adj.pools,
                                book |-> L.st.orders[token]]),
     res |-> "ok", stop |-> (amount = 0)]

settle(L, sp, adj, order, token, amount, time) ==
    IF adj.res # "ok" THEN [L EXCEPT !.st = [sp.st EXCEPT !.pools = adj.pools],
                                     !.res = adj.res, !.stop = TRUE]
    ELSE archive_fill(L, sp, adj, order, token, amount, time)

fill(L, sp, order, trade_type, trader, token, time) ==
    IF sp.res # "ok" THEN [L EXCEPT !.st = sp.st, !.res = sp.res, !.stop = TRUE]
    ELSE IF L.st.revenue_account = NoPrincipal
    THEN [L EXCEPT !.st = sp.st, !.res = "panic: no revenue account set", !.stop = TRUE]
    ELSE settle(L, sp,
                adjust_pools(sp.st.pools, trader, token, sp.piece,
                             L.st.revenue_account, trade_type),
                order, token,
                IF order.amount > L.amount THEN 0 ELSE L.amount - order.amount,
                time)

\* the state with `order` popped from its side of the book
popped(S, token, order) ==
    [S EXCEPT !.orders[token] =
        WithSide(@, order.order_type, Side(@, order.order_type) \ {order})]

match(L, order, trade_type, trader, token, limit, time) ==
    IF outside_limit(trade_type, limit, order) THEN [L EXCEPT !.stop = TRUE]
    ELSE fill(L,
              IF order.amount > L.amount
              THEN split_order(popped(L.st, token, order), trade_type, token, order, L.amount)
              ELSE [st |-> popped(L.st, token, order), res |-> "ok", piece |-> order,
                    freed |-> 0],
              order, trade_type, trader, token, time)

counter_side(S, token, trade_type) ==
    IF trade_type = Buy THEN S.orders[token].sellers ELSE S.orders[token].buyers

\* a variant that takes the orders from the wrong end of the set
best_order_reversed(orders, trade_type) ==
    IF trade_type = Buy THEN pop_last(orders) ELSE pop_first(orders)

best_order(orders, trade_type) ==
    IF trade_type = Buy THEN pop_first(orders) ELSE pop_last(orders)

RECURSIVE fill_loop(_, _, _, _, _, _)
RECURSIVE next_fill(_, _, _, _, _, _)
\* The `while let` loop of execute_trade: it ends when the side is empty, at
\* the first order outside the limit, on an error, and when nothing is left
\* to fill after an order.
fill_loop(L, trade_type, trader, token, limit, time) ==
    IF counter_side(L.st, token, trade_type) = {} THEN L
    ELSE next_fill(match(L, best_order(counter_side(L.st, token, trade_type), trade_type),
                         trade_type, trader, token, limit, time),
                   trade_type, trader, token, limit, time)

next_fill(L1, trade_type, trader, token, limit, time) ==
    IF L1.stop THEN L1
    ELSE fill_loop(L1, trade_type, trader, token, limit, time)

execute_trade(S, trade_type, trader, token, amount, limit, time) ==
    IF ~Has(S.orders, token)
    THEN [st |-> S, amount |-> amount, filled |-> 0, fills |-> <<>>, res |-> "ok",
          stop |-> TRUE]
    ELSE \* self.order_archive.entry(token).or_default()
         fill_loop([st |-> [S EXCEPT !.order_archive = Put(@, token, Get(@, token, <<>>))],
                    amount |-> amount, filled |-> 0, fills |-> <<>>, res |-> "ok",
                    stop |-> FALSE],
                   trade_type, trader, token, limit, time)

\* a variant that reports every trade as Filled
trade_result_filled(st, r, exec, e) ==
    [st |-> st, res |-> r, exec |-> "Filled", filled |-> e.filled, fills |-> e.fills,
     mid |-> e.st]

\* mid is the state execute_trade leaves behind, before the rest order
trade_result(st, r, exec, e) ==
    [st |-> st, res |-> r, exec |-> exec, filled |-> e.filled, fills |-> e.fills,
     mid |-> e.st]

rest_order(e, c) ==
    IF c.res # "ok" THEN trade_result(c.st, c.res, "none", e)
    ELSE trade_result(c.st, "ok", "FilledAndOrderCreated", e)

\* a variant that places a rest order for a market order too
after_execute_always_rests(e, trade_type, user, token, amount, price, time) ==
    IF e.res # "ok" THEN trade_result(e.st, e.res, "none", e)
    ELSE IF e.filled < amount
         THEN rest_order(e, create_order(e.st, user, token, amount - e.filled, price,
                                         time, trade_type))
         ELSE trade_result(e.st, "ok", "Filled", e)

after_execute(e, trade_type, user, token, amount, price, time) ==
    IF e.res # "ok" THEN trade_result(e.st, e.res, "none", e)
    ELSE IF e.filled < amount /\ price > 0
         THEN rest_order(e, create_order(e.st, user, token, amount - e.filled, price,
                                         time, trade_type))
         ELSE trade_result(e.st, "ok", "Filled", e)

\* Returns [st, res, exec, filled, fills, mid]; exec is the OrderExecution variant
trade(S, trade_type, user, token, amount, price, time) ==
    after_execute(execute_trade(S, trade_type, user, token, amount,
                                then_some(price > 0, price), time),
                  trade_type, user, token, amount, price, time)

----------------------------------------------------------------------------
(* Bulk closing and token listing *)

RECURSIVE in_order(_)
\* the orders of a BTreeSet in iteration order
in_order(S) ==
    IF S = {} THEN <<>> ELSE <<pop_first(S)>> \o in_order(S \ {pop_first(S)})

RECURSIVE books_in_order(_, _)
\* (token, order) for the buyers, then the sellers, of every book, by token id
books_in_order(orders, ids) ==
    IF ids = {} THEN <<>>
    ELSE LET token == CHOOSE x \in ids : \A y \in ids : x <= y
             seq == in_order(orders[token].buyers) \o in_order(orders[token].sellers)
         IN [i \in 1..Len(seq) |-> [token |-> token, order |-> seq[i]]]
            \o books_in_order(orders, ids \ {token})

RECURSIVE close_each(_, _, _)
close_each(S, seq, closed_orders) ==
    IF seq = <<>> THEN [st |-> S, closed |-> closed_orders]
    ELSE LET o == Head(seq).order
             r == close_order(S, o.owner, Head(seq).token, o.amount, o.price,
                              o.timestamp, o.order_type)
         IN close_each(r.st, Tail(seq),
                       IF r.res = "ok" THEN closed_orders + 1 ELSE closed_orders)

\* a variant without `.take(max_chunk)`
close_orders_by_condition_all(S, predicate, token_filter, max_chunk) ==
    LET ids == {token \in DOMAIN S.orders : token_filter = {} \/ token \in token_filter}
        matching == SelectSeq(books_in_order(S.orders, ids),
                              LAMBDA e : e.order \in predicate)
    IN close_each(S, matching, 0)

\* predicate is given as the set of orders the closure accepts; an empty
\* token_filter selects every token
close_orders_by_condition(S, predicate, token_filter, max_chunk) ==
    LET ids == {token \in DOMAIN S.orders : token_filter = {} \/ token \in token_filter}
        matching == SelectSeq(books_in_order(S.orders, ids),
                              LAMBDA e : e.order \in predicate)
        chunk == SubSeq(matching, 1, IF Len(matching) < max_chunk THEN Len(matching)
                                     ELSE max_chunk)
    IN close_each(S, chunk, 0)

\* the closure |_| true
any_order(S) ==
    UNION {S.orders[token].buyers \cup S.orders[token].sellers : token \in DOMAIN S.orders}

\* a variant that lists the token anew and leaves its orders open
add_token_keeps_orders(S, id, fee, decimals, timestamp) ==
    Res([S EXCEPT !.tokens = Put(@, id, Metadata(fee, decimals, timestamp)),
                  !.pools = Put(@, id, Get(@, id, EmptyMap))], "ok")

\* a variant that closes the orders of every token that is listed again
add_token_closes_always(S, id, fee, decimals, timestamp) ==
    LET changed == Has(S.tokens, id)
        S1 == IF changed THEN close_orders_by_condition(S, any_order(S), {id}, 100000).st
              ELSE S
    IN IF changed /\ Has(S1.orders, id)
          /\ (S1.orders[id].buyers # {} \/ S1.orders[id].sellers # {})
       THEN Res(S1, "couldn't close all orders")
       ELSE Res([S1 EXCEPT !.tokens = Put(@, id, Metadata(fee, decimals, timestamp)),
                           !.pools = Put(@, id, Get(@, id, EmptyMap))], "ok")

add_token(S, id, fee, decimals, timestamp) ==
    LET changed == Has(S.tokens, id)
                   /\ (S.tokens[id].fee # fee \/ S.tokens[id].decimals # decimals)
        S1 == IF changed THEN close_orders_by_condition(S, any_order(S), {id}, 100000).st
              ELSE S
    IN IF changed /\ Has(S1.orders, id)
          /\ (S1.orders[id].buyers # {} \/ S1.orders[id].sellers # {})
       THEN Res(S1, "couldn't close all orders")
       ELSE Res([S1 EXCEPT !.tokens = Put(@, id, Metadata(fee, decimals, timestamp)),
                           !.pools = Put(@, id, Get(@, id, EmptyMap))], "ok")

charge(S, user, amount) ==
    IF ~Has(S.pools, PAYMENT_TOKEN_ID) THEN Res(S, "token not found")
    ELSE LET balance == Get(S.pools[PAYMENT_TOKEN_ID], user, 0)
             \* payment_token_pool.entry(user).or_insert(0)
             S1 == [S EXCEPT !.pools[PAYMENT_TOKEN_ID] = Put(@, user, balance)]
         IN IF balance < amount THEN Res(S1, "not enough funds")
            ELSE IF S.revenue_account = NoPrincipal
            THEN Res(S1, "panic: no revenue account set")
            ELSE LET S2 == [S1 EXCEPT !.pools[PAYMENT_TOKEN_ID][user] = balance - amount]
                 IN Res([S2 EXCEPT !.pools[PAYMENT_TOKEN_ID] =
                            Put(@, S.revenue_account,
                                Get(@, S.revenue_account, 0) + amount)], "ok")

----------------------------------------------------------------------------
(* The canister: inputs *)

\* what the ledgers report as metadata: the payment ledger's transfer fee, and
\* the listed token's transfer fee and decimals
PAYMENT_FEE == 200
PAYMENT_DECIMALS == 8
TOKEN_FEE == 2
TOKEN_DECIMALS == 1

ledger_metadata(token) ==
    IF token = PAYMENT_TOKEN_ID THEN [fee |-> PAYMENT_FEE, decimals |-> PAYMENT_DECIMALS]
    ELSE [fee |-> TOKEN_FEE, decimals |-> TOKEN_DECIMALS]

\* the listing price less two ledger fees, at the exchange rate of the model
effective_amount == 5

\* the net amounts a deposit can bring into a pool
DepositAmounts(token) == IF token = PAYMENT_TOKEN_ID THEN {240} ELSE {20}

Amounts == {7, 20}

Prices == {0, 10, 15}

OrderTypes == {Buy, Sell}

open_orders(S) ==
    UNION {{[token |-> token, order |-> o] :
              o \in S.orders[token].buyers \cup S.orders[token].sellers} :
           token \in DOMAIN S.orders}

----------------------------------------------------------------------------
(* The canister: state and entry points *)

NoArgs == [token |-> 0, order_type |-> Buy, amount |-> 0, price |-> 0, timestamp |-> 0]

\* `last` describes the latest message that completed: its arguments, the
\* state before it and the result record of the State method it called.  A
\* message that is rejected or traps changes nothing and leaves no trace,
\* except for the trades of SpecTrap, which are recorded as "trade trapped".
Completed(op, caller, args, out) ==
    [op |-> op, caller |-> caller, args |-> args, time |-> now, pre |-> s, out |-> out]

\* The canister once deployed: init() has run, its timer has registered the
\* payment token, and the deployer has called set_revenue_account(REVENUE).
Deployed ==
    [add_token(EmptyState, PAYMENT_TOKEN_ID, PAYMENT_FEE, PAYMENT_DECIMALS, 0).st
        EXCEPT !.revenue_account = REVENUE]

\* no ledger is looked at: the ledgers answer every call at once
NoLedger == EmptyMap

Init ==
    /\ s = Deployed
    /\ now = 0
    /\ last = [op |-> "init", caller |-> NoPrincipal, args |-> NoArgs, time |-> 0,
               pre |-> EmptyState, out |-> Res(EmptyState, "ok")]
    /\ steps = 0
    /\ ledger = NoLedger
    /\ calls = {}

Step ==
    /\ steps < MaxSteps
    /\ steps' = steps + 1
    /\ UNCHANGED custody

\* time passes between two messages
Tick ==
    /\ now < MaxTime
    /\ now' = now + 1
    /\ UNCHANGED <<s, last, steps, custody>>

\* a variant that lets every caller set the account
SetRevenueAccount_by_anyone(caller, new_address) ==
    /\ Step
    /\ s' = [s EXCEPT !.revenue_account = new_address]
    /\ last' = Completed("set_revenue_account", caller, NoArgs, Res(s', "ok"))
    /\ UNCHANGED now

SetRevenueAccount(caller, new_address) ==
    /\ Step
    /\ s' = IF s.revenue_account = NoPrincipal \/ s.revenue_account = caller
            THEN [s EXCEPT !.revenue_account = new_address]
            ELSE s
    /\ last' = Completed("set_revenue_account", caller, NoArgs, Res(s', "ok"))
    /\ UNCHANGED now

\* deposit_liquidity with a ledger that answers: the net amount w > 0 of the
\* caller's subaccount is moved to the house account and credited to the pool
DepositLiquidity(caller, token, w) ==
    /\ Step
    /\ Has(s.tokens, token)
    /\ s' = add_liquidity(s, caller, token, w)
    /\ last' = Completed("deposit_liquidity", caller,
                         [NoArgs EXCEPT !.token = token, !.amount = w], Res(s', "ok"))
    /\ UNCHANGED now

Withdrawn(r, caller, token) ==
    /\ r.res = "ok"
    /\ s' = r.st
    /\ last' = Completed("withdraw", caller,
                         [NoArgs EXCEPT !.token = token, !.amount = r.amount],
                         Res(r.st, "ok"))

\* withdraw with a ledger that executes the transfer
Withdraw(caller, token) ==
    /\ Step
    /\ Has(s.tokens, token)
    /\ token_pool_balance(s, token, caller) > s.tokens[token].fee
    /\ Withdrawn(withdraw_liquidity(s, caller, token), caller, token)
    /\ UNCHANGED now

\* mid is the state that add_token leaves behind, before the charge
Charged(c, mid, caller, token) ==
    /\ c.res = "ok"
    /\ s' = c.st
    /\ last' = Completed("list_token", caller, [NoArgs EXCEPT !.token = token],
                         [st |-> c.st, res |-> c.res, mid |-> mid])

Listed(a, caller, token) ==
    IF a.res # "ok" THEN s' = a.st /\ UNCHANGED last
    ELSE Charged(charge(a.st, caller, effective_amount), a.st, caller, token)

\* list_token with a ledger that reports the token's metadata: the listing and
\* the charge run in one message, so a failed charge traps and undoes the listing
ListToken(caller, token) ==
    /\ Step
    /\ Has(s.pools, PAYMENT_TOKEN_ID)
    /\ Has(s.pools[PAYMENT_TOKEN_ID], caller)
    /\ s.pools[PAYMENT_TOKEN_ID][caller] >= effective_amount
    /\ Listed(add_token(s, token, ledger_metadata(token).fee,
                        ledger_metadata(token).decimals, now), caller, token)
    /\ UNCHANGED now

Traded(r, caller, args) ==
    /\ r.res = "ok"
    /\ s' = r.st
    /\ last' = Completed("trade", caller, args, r)

\* trade: `.expect("trade failed")` traps on an Err, and the message's changes
\* are dropped
TradeMessage(caller, token, amount, price, order_type) ==
    /\ Traded(trade(s, order_type, caller, token, amount, price, now), caller,
              [token |-> token, order_type |-> order_type, amount |-> amount,
               price |-> price, timestamp |-> now])
    /\ UNCHANGED now

Trade(caller, token, amount, price, order_type) ==
    /\ Step
    /\ TradeMessage(caller, token, amount, price, order_type)

Closed(r, caller, args) ==
    /\ r.res = "ok"
    /\ s' = r.st
    /\ last' = Completed("close_order", caller, args, r)

\* close_order: `.expect("couldn't close order")` traps on an Err
CloseOrder(caller, token, amount, price, timestamp, order_type) ==
    /\ Step
    /\ Closed(close_order(s, caller, token, amount, price, timestamp, order_type), caller,
              [token |-> token, order_type |-> order_type, amount |-> amount,
               price |-> price, timestamp |-> timestamp])
    /\ UNCHANGED now

Next ==
    \/ Tick
    \/ \E caller \in {1, REVENUE} : SetRevenueAccount(caller, REVENUE)
    \/ \E caller \in Traders, token \in TokenIds :
          \E w \in DepositAmounts(token) : DepositLiquidity(caller, token, w)
    \/ \E caller \in Users, token \in TokenIds : Withdraw(caller, token)
    \/ \E caller \in Users : ~Has(s.tokens, TOKEN) /\ ListToken(caller, TOKEN)
    \/ \E caller \in Traders, amount \in Amounts, price \in Prices,
          order_type \in OrderTypes : Trade(caller, TOKEN, amount, price, order_type)
    \/ \E caller \in Users, e \in open_orders(s) :
          CloseOrder(caller, e.token, e.order.amount, e.order.price, e.order.timestamp,
                     e.order.order_type)

Spec == Init /\ [][Next]_vars

----------------------------------------------------------------------------
(* The rate limit: one principal places order after order *)

\* the clock of this specification runs from 0 to RateMaxTime
RateMaxTime == 18

\* the number of clock ticks the principal lets pass without placing an order
MaxIdle == 2

RateUser == 1

\* A state of Spec: RateUser has deposited 240 payment tokens and listed TOKEN.
RateStart ==
    charge(add_token(add_liquidity(Deployed, RateUser, PAYMENT_TOKEN_ID, 240),
                     TOKEN, TOKEN_FEE, TOKEN_DECIMALS, 0).st,
           RateUser, effective_amount).st

InitRate ==
    /\ s = RateStart
    /\ now = 0
    /\ last = [op |-> "init", caller |-> NoPrincipal, args |-> NoArgs, time |-> 0,
               pre |-> EmptyState, out |-> Res(EmptyState, "ok")]
    /\ steps = 0
    /\ ledger = NoLedger
    /\ calls = {}

\* steps counts the orders placed
RateTick ==
    /\ now < RateMaxTime
    /\ now - steps < MaxIdle
    /\ now' = now + 1
    /\ UNCHANGED <<s, last, steps, custody>>

\* a buy order that rests: there are no sell orders
PlaceOrder ==
    /\ TradeMessage(RateUser, TOKEN, 7, 15, Buy)
    /\ steps' = steps + 1
    /\ UNCHANGED custody

NextRate == RateTick \/ PlaceOrder

SpecRate == InitRate /\ [][NextRate]_vars

----------------------------------------------------------------------------
(* The custody protocol: deposits and withdrawals against the token ledgers *)

\* the number of messages of this specification
MaxCustodySteps == 4

\* the number of ledger calls that can be in flight together
MaxCalls == 2

\* the accounts of a ledger: BEACON's main account, BEACON's subaccount of a
\* user, and the user's own account
main_account == [kind |-> "main", owner |-> NoPrincipal]

user_account(user) == [kind |-> "subaccount", owner |-> user]

wallet(user) == [kind |-> "wallet", owner |-> user]

Accounts == {main_account} \cup {user_account(u) : u \in Traders}
            \cup {wallet(u) : u \in Traders}

balance_of(L, token, account) == L[token][account]

\* icrc1_transfer as the ledger executes it: the sender pays amount + fee, the
\* receiver gets amount, the fee is burned
icrc1_transfer(L, token, from, to, amount, fee) ==
    IF fee # ledger_metadata(token).fee THEN [ledger |-> L, res |-> "BadFee"]
    ELSE IF L[token][from] < amount + fee THEN [ledger |-> L, res |-> "InsufficientFunds"]
    ELSE [ledger |-> [L EXCEPT ![token] =
                         [a \in Accounts |->
                             IF a = from /\ a = to THEN @[a] - fee
                             ELSE IF a = from THEN @[a] - (amount + fee)
                             ELSE IF a = to THEN @[a] + amount
                             ELSE @[a]]],
          res |-> "ok"]

\* the wrapper of a mutation that comes with a ledger transfer: it compares
\* funds_under_management of the token before and after with the declared delta
invariant_holds(pre, post, token, delta) ==
    Get(funds_under_management(post), token, 0)
    = Get(funds_under_management(pre), token, 0) + delta

mutate_with_invarant_check(pre, post, token, delta) ==
    IF invariant_holds(pre, post, token, delta) THEN Res(post, "ok")
    ELSE Res(pre, "panic: invariant violated")

\* A state of Spec: TOKEN is listed, the principal who listed it has withdrawn,
\* the revenue account holds the listing price.
CustodyStart == withdraw_liquidity(RateStart, RateUser, PAYMENT_TOKEN_ID).st

\* what the users hold in their own accounts to begin with
WalletStart(token, user) ==
    IF token = PAYMENT_TOKEN_ID /\ user = 1 THEN 640
    ELSE IF token = TOKEN /\ user = 2 THEN 24
    ELSE 0

\* the main account holds what the pools and orders hold
LedgerStart ==
    [token \in TokenIds |->
        [a \in Accounts |->
            IF a = main_account THEN Get(funds_under_management(CustodyStart), token, 0)
            ELSE IF a.kind = "wallet" THEN WalletStart(token, a.owner)
            ELSE 0]]

\* the amounts a user sends to the subaccount
FundAmounts(token) == IF token = PAYMENT_TOKEN_ID THEN {440} ELSE {22}

InitCustody ==
    /\ s = CustodyStart
    /\ now = 0
    /\ last = [op |-> "init", caller |-> NoPrincipal, args |-> NoArgs, time |-> 0,
               pre |-> EmptyState, out |-> Res(EmptyState, "ok")]
    /\ steps = 0
    /\ ledger = LedgerStart
    /\ calls = {}

CustodyStep ==
    /\ steps < MaxCustodySteps
    /\ steps' = steps + 1

\* the least number that no call in flight has
FreeId ==
    CHOOSE i \in 0..MaxCalls :
        /\ \A c \in calls : c.id # i
        /\ \A j \in 0..(i - 1) : \E d \in calls : d.id = j

NoDeposit == [deposit |-> FALSE, amount |-> 0, before |-> 0]

\* what a withdraw notes when it begins: whether the latest message was a
\* deposit of the same user and token that returned Ok, the amount that it
\* credited and the pool balance before it
Preceding(user, token) ==
    IF /\ last.op = "deposit_liquidity"
       /\ last.caller = user
       /\ last.args.token = token
       /\ last.out.res = "ok"
    THEN [deposit |-> TRUE, amount |-> last.args.amount,
          before |-> token_pool_balance(last.pre, token, user)]
    ELSE NoDeposit

\* a call to a ledger that has been sent: pc is the ledger method, reply is
\* "none" until the ledger has answered and moved is what it has added to the
\* receiving account; start is the state the message began in and follows the
\* message before it
Call(op, pc, user, token, fee, amount, balance) ==
    [op |-> op, pc |-> pc, user |-> user, token |-> token, fee |-> fee,
     amount |-> amount, balance |-> balance, reply |-> "none", moved |-> 0,
     start |-> s,
     follows |-> IF op = "withdraw" THEN Preceding(user, token) ELSE NoDeposit,
     id |-> FreeId]

CallArgs(c) == [NoArgs EXCEPT !.token = c.token, !.amount = c.amount]

\* the message of call c returns res to its caller
Returned(c, st, res) ==
    /\ s' = st
    /\ calls' = calls \ {c}
    /\ last' = Completed(c.op, c.user, CallArgs(c), [st |-> st, res |-> res, call |-> c])

\* the message of call c goes on with another call
Awaits(c, d) ==
    /\ calls' = (calls \ {c}) \cup {d}
    /\ UNCHANGED <<s, last>>

\* a user sends tokens from the own account to the subaccount at BEACON
Fund(user, token, amount) ==
    /\ icrc1_transfer(ledger, token, wallet(user), user_account(user), amount,
                      ledger_metadata(token).fee).res = "ok"
    /\ ledger' = icrc1_transfer(ledger, token, wallet(user), user_account(user), amount,
                                ledger_metadata(token).fee).ledger
    /\ UNCHANGED <<s, now, last, steps, calls>>

\* the ledger answers icrc1_balance_of, or the call fails
LedgerBalanceOf(c, answers) ==
    /\ c.pc = "balance_of"
    /\ c.reply = "none"
    /\ calls' = (calls \ {c}) \cup
                {IF answers
                 THEN [c EXCEPT !.reply = "ok",
                                !.balance = balance_of(ledger, c.token, user_account(c.user))]
                 ELSE [c EXCEPT !.reply = "call failed"]}
    /\ UNCHANGED <<s, now, last, steps, ledger>>

TransferFrom(c) == IF c.op = "withdraw" THEN main_account ELSE user_account(c.user)

TransferTo(c) == IF c.op = "withdraw" THEN wallet(c.user) ELSE main_account

Transferred(r, c) ==
    /\ ledger' = r.ledger
    /\ calls' = (calls \ {c}) \cup
                {[c EXCEPT !.reply = r.res,
                           !.moved = balance_of(r.ledger, c.token, TransferTo(c))
                                     - balance_of(ledger, c.token, TransferTo(c))]}

\* the ledger executes icrc1_transfer, or the call fails
LedgerTransfer(c, answers) ==
    /\ c.pc = "transfer"
    /\ c.reply = "none"
    /\ IF answers
       THEN Transferred(icrc1_transfer(ledger, c.token, TransferFrom(c), TransferTo(c),
                                       c.amount, c.fee), c)
       ELSE Transferred([ledger |-> ledger, res |-> "call failed"], c)
    /\ UNCHANGED <<s, now, last, steps>>

\* deposit_liquidity up to its first await
DepositCall(user, token) ==
    /\ CustodyStep
    /\ Has(s.tokens, token)
    /\ Cardinality(calls) < MaxCalls
    /\ calls' = calls \cup {Call("deposit_liquidity", "balance_of", user, token,
                                 s.tokens[token].fee, 0, 0)}
    /\ UNCHANGED <<s, now, last, ledger>>

\* the balance of the subaccount less the fee of the transfer to come
wallet_balance(c) == Max(0, c.balance - c.fee)

\* deposit_liquidity from the answer of icrc1_balance_of to its second await
DepositBalance(c) ==
    /\ c.op = "deposit_liquidity"
    /\ c.pc = "balance_of"
    /\ c.reply # "none"
    /\ IF c.reply # "ok" THEN Returned(c, s, c.reply)
       ELSE IF wallet_balance(c) > 0
            THEN Awaits(c, [c EXCEPT !.pc = "transfer", !.reply = "none",
                                     !.amount = wallet_balance(c)])
            ELSE Returned(c, s, "ok")
    /\ UNCHANGED <<now, steps, ledger>>

\* a variant that credits the whole balance of the subaccount
Credited_gross(r, c) ==
    Returned(c, add_liquidity(s, c.user, c.token, c.balance), "ok")

Credited(r, c) == Returned(c, r.st, r.res)

\* deposit_liquidity from the answer of icrc1_transfer to its end
DepositTransfer(c) ==
    /\ c.op = "deposit_liquidity"
    /\ c.pc = "transfer"
    /\ c.reply # "none"
    /\ IF c.reply # "ok" THEN Returned(c, s, "deposit transfer failed")
       ELSE Credited(mutate_with_invarant_check(
                         s, add_liquidity(s, c.user, c.token, c.amount), c.token, c.amount),
                     c)
    /\ UNCHANGED <<now, steps, ledger>>

\* a variant that asks the ledger for the whole balance
Removed_gross(r, user, token, fee) ==
    /\ r.res = "ok"
    /\ s' = r.st
    /\ calls' = calls \cup {Call("withdraw", "transfer", user, token, fee, r.amount,
                                 r.amount)}
    /\ last' = Completed("withdraw", user, [NoArgs EXCEPT !.token = token],
                         [st |-> r.st, res |-> "await",
                          call |-> Call("withdraw", "transfer", user, token, fee,
                                        r.amount, r.amount)])

\* the pool entry is removed and the message awaits the transfer
Removed(r, user, token, fee) ==
    /\ r.res = "ok"
    /\ s' = r.st
    /\ calls' = calls \cup {Call("withdraw", "transfer", user, token, fee,
                                 r.amount - fee, r.amount)}
    /\ last' = Completed("withdraw", user, [NoArgs EXCEPT !.token = token],
                         [st |-> r.st, res |-> "await",
                          call |-> Call("withdraw", "transfer", user, token, fee,
                                        r.amount - fee, r.amount)])

\* a variant that removes the pool entry of a withdraw that it rejects
WithdrawCall_removes(user, token) ==
    /\ CustodyStep
    /\ Has(s.tokens, token)
    /\ Cardinality(calls) < MaxCalls
    /\ IF token_pool_balance(s, token, user) <= s.tokens[token].fee
       THEN /\ last' = Completed("withdraw", user, [NoArgs EXCEPT !.token = token],
                                 [st |-> s, res |-> "amount smaller than the fee",
                                  call |-> Call("withdraw", "none", user, token,
                                                s.tokens[token].fee, 0,
                                                token_pool_balance(s, token, user))])
            /\ s' = withdraw_liquidity(s, user, token).st
            /\ UNCHANGED calls
       ELSE Removed(withdraw_liquidity(s, user, token), user, token, s.tokens[token].fee)
    /\ UNCHANGED <<now, ledger>>

\* withdraw up to its await
WithdrawCall(user, token) ==
    /\ CustodyStep
    /\ Has(s.tokens, token)
    /\ Cardinality(calls) < MaxCalls
    /\ IF token_pool_balance(s, token, user) <= s.tokens[token].fee
       THEN /\ last' = Completed("withdraw", user, [NoArgs EXCEPT !.token = token],
                                 [st |-> s, res |-> "amount smaller than the fee",
                                  call |-> Call("withdraw", "none", user, token,
                                                s.tokens[token].fee, 0,
                                                token_pool_balance(s, token, user))])
            /\ UNCHANGED <<s, calls>>
       ELSE Removed(withdraw_liquidity(s, user, token), user, token, s.tokens[token].fee)
    /\ UNCHANGED <<now, ledger>>

\* a variant that returns the error without the compensation
RolledBack_forgotten(r, c) == Returned(c, s, "withdraw transfer failed")

RolledBack(r, c) == Returned(c, r.st, "withdraw transfer failed")

\* withdraw from the answer of icrc1_transfer to its end
WithdrawTransfer(c) ==
    /\ c.op = "withdraw"
    /\ c.pc = "transfer"
    /\ c.reply # "none"
    /\ IF c.reply # "ok"
       THEN RolledBack(mutate_with_invarant_check(
                           s, add_liquidity(s, c.user, c.token, c.balance), c.token,
                           c.balance),
                       c)
       ELSE Returned(c, s, "ok")
    /\ UNCHANGED <<now, steps, ledger>>

\* a trade between two messages of the custody protocol
CustodyTrade(caller, amount, price, order_type) ==
    /\ CustodyStep
    /\ TradeMessage(caller, TOKEN, amount, price, order_type)
    /\ UNCHANGED custody

NextCustody ==
    \/ \E user \in Traders, token \in TokenIds :
          \E amount \in FundAmounts(token) : Fund(user, token, amount)
    \/ \E c \in calls, answers \in BOOLEAN : LedgerBalanceOf(c, answers)
    \/ \E c \in calls, answers \in BOOLEAN : LedgerTransfer(c, answers)
    \/ \E user \in Traders, token \in TokenIds : DepositCall(user, token)
    \/ \E c \in calls : DepositBalance(c)
    \/ \E c \in calls : DepositTransfer(c)
    \/ \E user \in Traders, token \in TokenIds : WithdrawCall(user, token)
    \/ \E c \in calls : WithdrawTransfer(c)
    \/ \E caller \in Traders :
          CustodyTrade(caller, 20, 10, IF caller = 1 THEN Buy ELSE Sell)

SpecCustody == InitCustody /\ [][NextCustody]_vars

----------------------------------------------------------------------------
(* Housekeeping and relisting: the life of open orders *)

ORDER_EXPIRATION_DAYS == 90

DAY == 24 * HOUR

\* the number of messages of this specification
MaxLifeSteps == 3

\* the moments of this specification: time 0 to MaxLate, and the moment at
\* which an order created at MaxLate reaches the age of expiry
MaxLate == 1

LifeTimes == 0..MaxLate \cup {MaxLate + ORDER_EXPIRATION_DAYS * DAY}

\* the closure |order| order.timestamp + ORDER_EXPIRATION_DAYS * DAY < now
expired(S, time) ==
    {order \in any_order(S) : order.timestamp + ORDER_EXPIRATION_DAYS * DAY < time}

\* the archived orders that clean_up retains
retained(archive, time) ==
    SelectSeq(archive,
              LAMBDA order : order.timestamp + 2 * ORDER_EXPIRATION_DAYS * DAY > time)

\* `data.timestamp + 2 * ORDER_EXPIRATION_DAYS < now`: the code adds 180
\* nanoseconds, which is less than one unit of the clock
inactive(data, time) == data.timestamp < time

\* the tokens that clean_up delists: inactive, no open order, no pool entry
delisted(S, time) ==
    {token_id \in DOMAIN S.tokens :
        /\ inactive(S.tokens[token_id], time)
        /\ Has(S.orders, token_id) =>
              S.orders[token_id].sellers = {} /\ S.orders[token_id].buyers = {}
        /\ Has(S.pools, token_id) => S.pools[token_id] = EmptyMap}

delist(S, ids) ==
    [S EXCEPT !.tokens = [id \in DOMAIN @ \ ids |-> @[id]],
              !.pools = [id \in DOMAIN @ \ ids |-> @[id]]]

\* a variant that closes the orders that have reached the age of expiry
close_expired_early(S, time) ==
    close_orders_by_condition(
        S, {order \in any_order(S) : order.timestamp + ORDER_EXPIRATION_DAYS * DAY <= time},
        {}, 100000).st

close_expired(S, time) == close_orders_by_condition(S, expired(S, time), {}, 100000).st

delist_inactive(S, time) == delist(S, delisted(S, time))

clean_up(S, time) ==
    delist_inactive(
        close_expired([S EXCEPT !.order_archive =
                          [token \in DOMAIN @ |-> retained(@[token], time)]],
                      time),
        time)

\* A state the canister reaches from CustodyStart by four deposits: both
\* traders hold 240 payment tokens and 20 TOKEN.
LifeStart ==
    add_liquidity(
        add_liquidity(
            add_liquidity(add_liquidity(CustodyStart, 1, PAYMENT_TOKEN_ID, 240),
                          2, PAYMENT_TOKEN_ID, 240),
            1, TOKEN, 20),
        2, TOKEN, 20)

InitLife ==
    /\ s = LifeStart
    /\ now = 0
    /\ last = [op |-> "init", caller |-> NoPrincipal, args |-> NoArgs, time |-> 0,
               pre |-> EmptyState, out |-> Res(EmptyState, "ok")]
    /\ steps = 0
    /\ ledger = NoLedger
    /\ calls = {}

LifeStep ==
    /\ steps < MaxLifeSteps
    /\ steps' = steps + 1
    /\ UNCHANGED custody

\* time passes up to a later moment
LifeTick(time) ==
    /\ now < time
    /\ now' = time
    /\ UNCHANGED <<s, last, steps, custody>>

LifeTrade(caller, amount, price, order_type) ==
    /\ LifeStep
    /\ TradeMessage(caller, TOKEN, amount, price, order_type)

LifeClose(caller, token, amount, price, timestamp, order_type) ==
    /\ LifeStep
    /\ Closed(close_order(s, caller, token, amount, price, timestamp, order_type), caller,
              [token |-> token, order_type |-> order_type, amount |-> amount,
               price |-> price, timestamp |-> timestamp])
    /\ UNCHANGED now

\* what the ledger of TOKEN can report when the token is listed again
RelistMetadata ==
    {[fee |-> TOKEN_FEE, decimals |-> TOKEN_DECIMALS],
     [fee |-> TOKEN_FEE + 1, decimals |-> TOKEN_DECIMALS],
     [fee |-> TOKEN_FEE, decimals |-> TOKEN_DECIMALS + 1]}

\* list_token for a token that is listed, with a ledger that reports metadata
Relist(caller, metadata) ==
    /\ LifeStep
    /\ Has(s.tokens, TOKEN)
    /\ Has(s.pools, PAYMENT_TOKEN_ID)
    /\ Has(s.pools[PAYMENT_TOKEN_ID], caller)
    /\ s.pools[PAYMENT_TOKEN_ID][caller] >= effective_amount
    /\ Listed(add_token(s, TOKEN, metadata.fee, metadata.decimals, now), caller, TOKEN)
    /\ UNCHANGED now

\* the message of the housekeeping timer
CleanUpMessage ==
    /\ s' = clean_up(s, now)
    /\ last' = Completed("clean_up", NoPrincipal, NoArgs, Res(s', "ok"))
    /\ UNCHANGED now

\* the timer of the housekeeping fires
CleanUp ==
    /\ LifeStep
    /\ CleanUpMessage

NextLife ==
    \/ \E time \in LifeTimes : LifeTick(time)
    \/ \E caller \in Traders, amount \in Amounts, price \in Prices,
          order_type \in OrderTypes : LifeTrade(caller, amount, price, order_type)
    \/ \E caller \in Traders, e \in open_orders(s) :
          LifeClose(caller, e.token, e.order.amount, e.order.price, e.order.timestamp,
                    e.order.order_type)
    \/ \E caller \in Traders, metadata \in RelistMetadata : Relist(caller, metadata)
    \/ CleanUp

SpecLife == InitLife /\ [][NextLife]_vars

\* what the ledger of the payment token can report when it is listed again
PaymentMetadata ==
    {[fee |-> PAYMENT_FEE, decimals |-> PAYMENT_DECIMALS],
     [fee |-> PAYMENT_FEE \div 2, decimals |-> PAYMENT_DECIMALS]}

LedgerMetadata(token) == IF token = PAYMENT_TOKEN_ID THEN PaymentMetadata ELSE RelistMetadata

\* list_token for any listed token, the payment token included
RelistToken(caller, token, metadata) ==
    /\ LifeStep
    /\ Has(s.tokens, token)
    /\ Has(s.pools, PAYMENT_TOKEN_ID)
    /\ Has(s.pools[PAYMENT_TOKEN_ID], caller)
    /\ s.pools[PAYMENT_TOKEN_ID][caller] >= effective_amount
    /\ Listed(add_token(s, token, metadata.fee, metadata.decimals, now), caller, token)
    /\ UNCHANGED now

\* trades and listings of both tokens
NextSnapshot ==
    \/ \E time \in LifeTimes : LifeTick(time)
    \/ \E caller \in Traders, amount \in Amounts, price \in Prices,
          order_type \in OrderTypes : LifeTrade(caller, amount, price, order_type)
    \/ \E caller \in Traders, token \in TokenIds :
          \E metadata \in LedgerMetadata(token) : RelistToken(caller, token, metadata)

SpecSnapshot == InitLife /\ [][NextSnapshot]_vars

\* the listing price less two ledger fees at an exchange rate at which it
\* exceeds the transfer fee of the payment ledger
listing_charge == PAYMENT_FEE + effective_amount

\* The canister after principal 1 has deposited the listing price, listed
\* TOKEN at that rate and deposited 240 payment tokens, and principal 2 has
\* deposited 20 TOKEN.
DelistStart ==
    add_liquidity(
        add_liquidity(
            charge(add_token(add_liquidity(Deployed, 1, PAYMENT_TOKEN_ID, listing_charge),
                             TOKEN, TOKEN_FEE, TOKEN_DECIMALS, 0).st,
                   1, listing_charge).st,
            1, PAYMENT_TOKEN_ID, 240),
        2, TOKEN, 20)

InitDelist ==
    /\ s = DelistStart
    /\ now = 0
    /\ last = [op |-> "init", caller |-> NoPrincipal, args |-> NoArgs, time |-> 0,
               pre |-> EmptyState, out |-> Res(EmptyState, "ok")]
    /\ steps = 0
    /\ ledger = NoLedger
    /\ calls = {}

MaxDelistSteps == 4

DelistStep ==
    /\ steps < MaxDelistSteps
    /\ steps' = steps + 1
    /\ UNCHANGED custody

\* withdraw of any principal, the revenue account included, with a ledger
\* that transfers
DelistWithdraw(caller, token) ==
    /\ DelistStep
    /\ Has(s.tokens, token)
    /\ token_pool_balance(s, token, caller) > s.tokens[token].fee
    /\ Withdrawn(withdraw_liquidity(s, caller, token), caller, token)
    /\ UNCHANGED now

DelistTrade(caller, amount, price, order_type) ==
    /\ DelistStep
    /\ TradeMessage(caller, TOKEN, amount, price, order_type)

DelistCleanUp ==
    /\ DelistStep
    /\ CleanUpMessage

\* trades, withdrawals and the housekeeping
NextDelist ==
    \/ \E time \in LifeTimes : LifeTick(time)
    \/ \E caller \in Users, token \in TokenIds : DelistWithdraw(caller, token)
    \/ \E caller \in Traders, amount \in Amounts, price \in Prices,
          order_type \in OrderTypes : DelistTrade(caller, amount, price, order_type)
    \/ DelistCleanUp

SpecDelist == InitDelist /\ [][NextDelist]_vars

----------------------------------------------------------------------------
(* The revenue account: the canister from its deployment on *)

\* the canister before the first call of set_revenue_account
InitRevenue ==
    /\ s = [Deployed EXCEPT !.revenue_account = NoPrincipal]
    /\ now = 0
    /\ last = [op |-> "init", caller |-> NoPrincipal, args |-> NoArgs, time |-> 0,
               pre |-> EmptyState, out |-> Res(EmptyState, "ok")]
    /\ steps = 0
    /\ ledger = NoLedger
    /\ calls = {}

NextRevenue ==
    \/ \E caller \in Users, new_address \in Users : SetRevenueAccount(caller, new_address)
    \/ \E caller \in Users : DepositLiquidity(caller, PAYMENT_TOKEN_ID, 240)
    \/ \E caller \in Users : Withdraw(caller, PAYMENT_TOKEN_ID)
    \/ \E caller \in Users : ~Has(s.tokens, TOKEN) /\ ListToken(caller, TOKEN)

SpecRevenue == InitRevenue /\ [][NextRevenue]_vars

----------------------------------------------------------------------------
(* Listing: list_token with its call to the ledger, and delisting *)

\* the number of messages of this specification
MaxListSteps == 3

\* A state the canister reaches from CustodyStart by two deposits: principal 1
\* can pay for listings and can withdraw, principal 2 can pay for a listing or
\* for one buy order, but not for both.
ListingStart ==
    add_liquidity(add_liquidity(CustodyStart, 1, PAYMENT_TOKEN_ID, 240),
                  2, PAYMENT_TOKEN_ID, 36)

InitListing ==
    /\ s = ListingStart
    /\ now = 0
    /\ last = [op |-> "init", caller |-> NoPrincipal, args |-> NoArgs, time |-> 0,
               pre |-> EmptyState, out |-> Res(EmptyState, "ok")]
    /\ steps = 0
    /\ ledger = NoLedger
    /\ calls = {}

ListStep ==
    /\ steps < MaxListSteps
    /\ steps' = steps + 1

\* list_token up to its await: the caller must hold the listing price
ListCall(user, token) ==
    /\ ListStep
    /\ Cardinality(calls) < MaxCalls
    /\ Has(s.pools, PAYMENT_TOKEN_ID)
    /\ Has(s.pools[PAYMENT_TOKEN_ID], user)
    /\ s.pools[PAYMENT_TOKEN_ID][user] >= effective_amount
    /\ calls' = calls \cup {Call("list_token", "metadata", user, token, 0,
                                 effective_amount, 0)}
    /\ UNCHANGED <<s, now, last, ledger>>

\* a variant that keeps the listing when the charge fails
Paid_keeps_listing(c, a, ch) ==
    /\ s' = IF ch.res = "ok" THEN ch.st ELSE a.st
    /\ calls' = calls \ {c}
    /\ last' = Completed("list_token", c.user, CallArgs(c),
                         [st |-> s', res |-> IF ch.res = "ok" THEN "ok"
                                             ELSE "panic: payment failed",
                          mid |-> a.st, call |-> c])

\* The listing a is charged (ch); `.expect("payment failed")` traps on an Err,
\* and the trap undoes the listing, which ran in the same message.
Paid(c, a, ch) ==
    /\ s' = IF ch.res = "ok" THEN ch.st ELSE s
    /\ calls' = calls \ {c}
    /\ last' = Completed("list_token", c.user, CallArgs(c),
                         [st |-> s', res |-> IF ch.res = "ok" THEN "ok"
                                             ELSE "panic: payment failed",
                          mid |-> a.st, call |-> c])

\* the listing a has passed the invariant check, or the message traps
Verified(c, a) ==
    IF a.res # "ok" THEN Returned(c, a.st, a.res)
    ELSE Paid(c, a, charge(a.st, c.user, c.amount))

\* register_token after the answer of the ledger: the listing, under the
\* invariant check with a delta of 0
Registered(c, a) ==
    IF a.res # "ok" THEN Returned(c, a.st, a.res)
    ELSE Verified(c, mutate_with_invarant_check(s, a.st, c.token, 0))

\* list_token from the answer of icrc1_metadata to its end; the ledger reports
\* metadata, or the call fails
ListReply(c, metadata, answers) ==
    /\ c.op = "list_token"
    /\ IF answers
       THEN Registered(c, add_token(s, c.token, metadata.fee, metadata.decimals, now))
       ELSE Returned(c, s, "couldn't fetch metadata")
    /\ UNCHANGED <<now, steps, ledger>>

\* withdraw of the payment token with a ledger that executes the transfer
ListingWithdraw(caller) ==
    /\ ListStep
    /\ token_pool_balance(s, PAYMENT_TOKEN_ID, caller) > s.tokens[PAYMENT_TOKEN_ID].fee
    /\ Withdrawn(withdraw_liquidity(s, caller, PAYMENT_TOKEN_ID), caller, PAYMENT_TOKEN_ID)
    /\ UNCHANGED <<now, custody>>

ListingTrade(caller, amount, price, order_type) ==
    /\ ListStep
    /\ TradeMessage(caller, TOKEN, amount, price, order_type)
    /\ UNCHANGED custody

\* the timer of the housekeeping fires
Housekeeping ==
    /\ ListStep
    /\ CleanUpMessage
    /\ UNCHANGED custody

NextListing ==
    \/ \E time \in LifeTimes : LifeTick(time)
    \/ \E user \in Traders : ListCall(user, TOKEN)
    \/ \E c \in calls, metadata \in RelistMetadata, answers \in BOOLEAN :
          ListReply(c, metadata, answers)
    \/ \E caller \in Traders : ListingWithdraw(caller)
    \/ \E caller \in Traders : ListingTrade(caller, 20, 15, Buy)
    \/ Housekeeping

SpecListing == InitListing /\ [][NextListing]_vars

----------------------------------------------------------------------------
(* Wide orders: volumes near the top of u128 *)

\* the trade messages of a behaviour
MaxWideSteps == 3

\* 20 tokens at 3000 have the volume 6000, and 20 * 6000 > U128_MAX / TX_FEE
WidePrices == {15, 3000, 6000}

\* A state of Spec: principal 1 has deposited 6405 payment tokens and listed
\* TOKEN, and both traders have deposited 40 TOKEN.
WideStart ==
    add_liquidity(
        add_liquidity(
            charge(add_token(add_liquidity(Deployed, 1, PAYMENT_TOKEN_ID, 6405),
                             TOKEN, TOKEN_FEE, TOKEN_DECIMALS, 0).st,
                   1, effective_amount).st,
            1, TOKEN, 40),
        2, TOKEN, 40)

InitWide ==
    /\ s = WideStart
    /\ now = 0
    /\ last = [op |-> "init", caller |-> NoPrincipal, args |-> NoArgs, time |-> 0,
               pre |-> EmptyState, out |-> Res(EmptyState, "ok")]
    /\ steps = 0
    /\ ledger = NoLedger
    /\ calls = {}

WideStep ==
    /\ steps < MaxWideSteps
    /\ steps' = steps + 1
    /\ UNCHANGED custody

\* the rest order of the trade r overflows an unchecked operation
RestOverflows(r, caller, amount, price, order_type) ==
    /\ r.res = "ok"
    /\ r.exec = "FilledAndOrderCreated"
    /\ arithmetic_overflows(Order(order_type, caller, amount - r.filled, price, now,
                                  r.st.tokens[TOKEN].decimals,
                                  r.st.tokens[PAYMENT_TOKEN_ID].fee))

\* trade, in a canister built with overflow checks (the unchecked operations
\* panic and the message traps) or without them (they wrap)
WideTrade(caller, amount, price, order_type, overflow_checks) ==
    /\ WideStep
    /\ overflow_checks =>
           ~RestOverflows(trade(s, order_type, caller, TOKEN, amount, price, now),
                          caller, amount, price, order_type)
    /\ TradeMessage(caller, TOKEN, amount, price, order_type)

NextWide ==
    \/ Tick
    \/ \E caller \in Traders, amount \in Amounts, price \in WidePrices,
          order_type \in OrderTypes, overflow_checks \in BOOLEAN :
          WideTrade(caller, amount, price, order_type, overflow_checks)

SpecWide == InitWide /\ [][NextWide]_vars

----------------------------------------------------------------------------
(* Trades that fail: State::trade returns an Err or panics *)

\* a variant in which the canister keeps what State::trade did before it failed
Trapped_keeps_changes(r, caller, args) ==
    /\ r.res # "ok"
    /\ s' = r.st
    /\ last' = Completed("trade trapped", caller, args, r)

\* `.expect("trade failed")` panics inside mutate: the message traps and the
\* canister keeps the state it had before the message; r.st is the state
\* that State::trade had reached when it failed
Trapped(r, caller, args) ==
    /\ r.res # "ok"
    /\ s' = s
    /\ last' = Completed("trade trapped", caller, args, r)

TradeTraps(caller, amount, price, order_type) ==
    /\ Trapped(trade(s, order_type, caller, TOKEN, amount, price, now), caller,
               [token |-> TOKEN, order_type |-> order_type, amount |-> amount,
                price |-> price, timestamp |-> now])
    /\ UNCHANGED <<now, steps, custody>>

NextTrap ==
    \/ \E time \in LifeTimes : LifeTick(time)
    \/ \E caller \in Traders, amount \in Amounts, price \in Prices,
          order_type \in OrderTypes :
          \/ LifeTrade(caller, amount, price, order_type)
          \/ TradeTraps(caller, amount, price, order_type)

SpecTrap == InitLife /\ [][NextTrap]_vars

----------------------------------------------------------------------------
(* Withdrawals between the trades of two principals *)

\* the main account of every ledger holds what the pools of LifeStart hold
SolvencyLedger ==
    [token \in TokenIds |->
        [a \in Accounts |->
            IF a = main_account THEN Get(funds_under_management(LifeStart), token, 0)
            ELSE IF a.kind = "wallet" THEN WalletStart(token, a.owner)
            ELSE 0]]

InitSolvency ==
    /\ s = LifeStart
    /\ now = 0
    /\ last = [op |-> "init", caller |-> NoPrincipal, args |-> NoArgs, time |-> 0,
               pre |-> EmptyState, out |-> Res(EmptyState, "ok")]
    /\ steps = 0
    /\ ledger = SolvencyLedger
    /\ calls = {}

\* principal 1 buys with a limit, principal 2 sells at the market
NextSolvency ==
    \/ \E user \in Traders, token \in TokenIds : WithdrawCall(user, token)
    \/ \E c \in calls, answers \in BOOLEAN : LedgerTransfer(c, answers)
    \/ \E c \in calls : WithdrawTransfer(c)
    \/ \E amount \in Amounts : CustodyTrade(1, amount, 15, Buy)
    \/ \E amount \in Amounts : CustodyTrade(2, amount, 0, Sell)

SpecSolvency == InitSolvency /\ [][NextSolvency]_vars

\* the token that a principal deposits and withdraws: the one that the own
\* account holds
TokenOf(user) == IF WalletStart(TOKEN, user) > 0 THEN TOKEN ELSE PAYMENT_TOKEN_ID

\* deposits and withdrawals of principals who trade with nobody
NextPayout ==
    \/ \E user \in Traders :
          \E amount \in FundAmounts(TokenOf(user)) : Fund(user, TokenOf(user), amount)
    \/ \E c \in calls, answers \in BOOLEAN : LedgerBalanceOf(c, answers)
    \/ \E c \in calls, answers \in BOOLEAN : LedgerTransfer(c, answers)
    \/ \E user \in Traders : DepositCall(user, TokenOf(user))
    \/ \E c \in calls : DepositBalance(c)
    \/ \E c \in calls : DepositTransfer(c)
    \/ \E user \in Traders : WithdrawCall(user, TokenOf(user))
    \/ \E c \in calls : WithdrawTransfer(c)

SpecPayout == InitSolvency /\ [][NextPayout]_vars

----------------------------------------------------------------------------
(* Properties: conservation of funds *)

IsTrade == last.op = "trade"

IsClose == last.op = "close_order"

RestOrderCreated == IsTrade /\ last.out.exec = "FilledAndOrderCreated"

\* the balance of a pool entry, 0 when there is none
Balance(pools, id, user) == IF Has(pools, id) THEN Get(pools[id], user, 0) ELSE 0

\* C1: every successful trade (all its fills and its rest order) leaves
\* funds_under_management unchanged for every token.
C1_TradeKeepsFunds ==
    IsTrade => funds_under_management(s) = funds_under_management(last.pre)

\* C2: every successful create_order and every successful close_order leaves
\* funds_under_management unchanged for every token.
C2_OrderKeepsFunds ==
    /\ RestOrderCreated =>
           funds_under_management(s) = funds_under_management(last.out.mid)
    /\ IsClose => funds_under_management(s) = funds_under_management(last.pre)

\* a sell order, created by an earlier trade, is closed and its tokens are
\* back in the owner's pool
C2_Witness ==
    /\ IsClose
    /\ last.args.order_type = Sell
    /\ Balance(s.pools, last.args.token, last.caller)
       = Balance(last.pre.pools, last.args.token, last.caller) + last.args.amount
    /\ last.args.amount > 0

----------------------------------------------------------------------------
(* Properties: settlement of a fill *)

Fills == last.out.fills

\* What the claim says the settlement of one fill adds to pool[id][user]: the
\* fill is of `amount` tokens of the resting order `order`, taken by `trader`.
C3_Delta(trade_type, trader, token, revenue, order, amount, id, user) ==
    LET v == (amount * order.price) \div Pow10(order.decimals)
        f == Max(1, (v * TX_FEE) \div order.payment_token_fee)
    IN (IF id = PAYMENT_TOKEN_ID /\ user = trader
         THEN (IF trade_type = Buy THEN 0 - (v + f) ELSE v - f) ELSE 0)
       + (IF id = PAYMENT_TOKEN_ID /\ user = order.owner /\ trade_type = Buy
          THEN v - f ELSE 0)
       + (IF id = PAYMENT_TOKEN_ID /\ user = revenue THEN 2 * f ELSE 0)
       + (IF id = token /\ user = trader
          THEN (IF trade_type = Buy THEN amount ELSE 0 - amount) ELSE 0)
       + (IF id = token /\ user = order.owner /\ trade_type = Sell THEN amount ELSE 0)

\* C3: the settlement of every fill of a resting order O by amount a moves
\* v + f out of the buying trader's payment balance, v - f to the receiver of
\* the payment, a tokens to the receiver of the tokens (out of the selling
\* trader's token balance), 2f to the revenue account and nothing else, with
\* v and f computed from O's price.
C3_SettlementMoves ==
    IsTrade =>
        \A i \in 1..Len(Fills) : \A id \in TokenIds, user \in Users :
            Balance(Fills[i].after, id, user) - Balance(Fills[i].before, id, user)
            = C3_Delta(last.args.order_type, last.caller, last.args.token,
                       last.pre.revenue_account, Fills[i].whole, Fills[i].order.amount,
                       id, user)

\* a limit sell has filled another principal's buy order that rests at a
\* better price than the limit
C3_Witness ==
    /\ IsTrade
    /\ last.args.order_type = Sell
    /\ \E i \in 1..Len(Fills) :
          /\ Fills[i].whole.owner # last.caller
          /\ last.args.price > 0
          /\ Fills[i].whole.price > last.args.price

----------------------------------------------------------------------------
(* Properties: order of matching *)

\* the side of the book that fill i of the latest trade took its order from,
\* as it was when the order was taken
Resting(i) ==
    IF last.args.order_type = Buy THEN Fills[i].book.sellers ELSE Fills[i].book.buyers

\* price p is strictly better than price q for the trader
Better(p, q) == IF last.args.order_type = Buy THEN p < q ELSE p > q

\* C4: within one trade the resting orders are consumed best price first
\* (ascending prices for a buying trader, descending for a selling one): no
\* order is filled while a strictly better priced order rests on that side.
C4_BestPriceFirst ==
    IsTrade =>
        \A i \in 1..Len(Fills) :
            /\ \A o \in Resting(i) : ~Better(o.price, Fills[i].whole.price)
            /\ i > 1 => ~Better(Fills[i].whole.price, Fills[i - 1].whole.price)

\* one trade has filled two orders at different prices
C4_Witness ==
    /\ IsTrade
    /\ Len(Fills) >= 2
    /\ Fills[1].whole.price # Fills[2].whole.price

\* order a goes before order b of the same price: earlier timestamp, then
\* smaller amount, then smaller owner
Before(a, b) ==
    \/ a.timestamp < b.timestamp
    \/ a.timestamp = b.timestamp /\ a.amount < b.amount
    \/ a.timestamp = b.timestamp /\ a.amount = b.amount /\ a.owner < b.owner

\* C5: among resting orders of equal price a trade fills the one created
\* earliest first, on both sides of the book; remaining ties go to the smaller
\* amount, then to the smaller owner.
C5_TimePriority ==
    IsTrade =>
        \A i \in 1..Len(Fills) :
            \A o \in Resting(i) :
                o.price = Fills[i].whole.price => ~Before(o, Fills[i].whole)

\* C5 for a buying trader only (the sell side of the book)
C5_SellSide ==
    (IsTrade /\ last.args.order_type = Buy) =>
        \A i \in 1..Len(Fills) :
            \A o \in Resting(i) :
                o.price = Fills[i].whole.price => ~Before(o, Fills[i].whole)

\* a buying trader had the choice between two sell orders of equal price
C5_SellSideWitness ==
    /\ IsTrade
    /\ last.args.order_type = Buy
    /\ \E i \in 1..Len(Fills) :
          \E o \in Resting(i) : o.price = Fills[i].whole.price /\ o # Fills[i].whole

----------------------------------------------------------------------------
(* Properties: the limit, the result of a trade, reservations *)

\* the trade was made with a limit and order o is priced worse than the limit
Outside(o) ==
    /\ last.args.price > 0
    /\ IF last.args.order_type = Buy THEN o.price > last.args.price
       ELSE o.price < last.args.price

FilledOwners == {Fills[i].whole.owner : i \in 1..Len(Fills)}

\* C6: a trade with limit p fills no resting order priced worse than p; the
\* orders beyond the limit stay in the book as they were, and the balances of
\* principals whose orders were not filled are untouched by the matching.
C6_LimitGate ==
    IsTrade =>
        /\ \A i \in 1..Len(Fills) : ~Outside(Fills[i].whole)
        /\ \A token \in DOMAIN last.pre.orders :
              \A o \in counter_side(last.pre, token, last.args.order_type) :
                  Outside(o) => o \in counter_side(last.out.mid, token, last.args.order_type)
        /\ \A user \in Users \ (FilledOwners \cup {last.caller, last.pre.revenue_account}) :
              \A id \in TokenIds :
                  Balance(last.out.mid.pools, id, user) = Balance(last.pre.pools, id, user)

\* a limit trade has filled an order and has stopped at another principal's
\* order beyond the limit
C6_Witness ==
    /\ IsTrade
    /\ Len(Fills) >= 1
    /\ \E o \in counter_side(last.pre, last.args.token, last.args.order_type) :
          /\ Outside(o)
          /\ o.owner # last.caller
          /\ o \in counter_side(s, last.args.token, last.args.order_type)

\* the orders this trade has pushed to the front of the archive
Archived ==
    SubSeq(s.order_archive[last.args.token], 1,
           Len(s.order_archive[last.args.token])
           - Len(Get(last.pre.order_archive, last.args.token, <<>>)))

\* the rest order of the latest trade
RestOrder ==
    Order(last.args.order_type, last.caller, last.args.amount - last.out.filled,
          last.args.price, last.time, s.tokens[last.args.token].decimals,
          s.tokens[PAYMENT_TOKEN_ID].fee)

\* C7: trade returns FilledAndOrderCreated(filled) and adds exactly one open
\* order (side, user, requested - filled, price, now) iff price > 0 and
\* filled < requested, and otherwise returns Filled(filled) and adds no order;
\* filled <= requested, and filled is the sum of the amounts archived by the call.
C7_TradeResult ==
    IsTrade =>
        /\ last.out.exec \in {"Filled", "FilledAndOrderCreated"}
        /\ last.out.exec = "FilledAndOrderCreated"
              <=> (last.args.price > 0 /\ last.out.filled < last.args.amount)
        /\ last.out.exec = "FilledAndOrderCreated" =>
              /\ RestOrder \notin {e.order : e \in open_orders(last.out.mid)}
              /\ open_orders(s) = open_orders(last.out.mid)
                                  \cup {[token |-> last.args.token, order |-> RestOrder]}
        /\ last.out.exec = "Filled" => open_orders(s) = open_orders(last.out.mid)
        /\ last.out.filled <= last.args.amount
        /\ Has(s.order_archive, last.args.token) => last.out.filled = SumAmounts(Archived)
        /\ ~Has(s.order_archive, last.args.token) => last.out.filled = 0

\* a limit trade was filled in part and has left a rest order
C7_Witness ==
    /\ RestOrderCreated
    /\ last.out.filled > 0
    /\ [token |-> last.args.token, order |-> RestOrder] \in open_orders(s)

\* the pool an order of the latest trade's type reserves in
Reserving == IF last.args.order_type = Buy THEN PAYMENT_TOKEN_ID ELSE last.args.token

\* c is the result of closing the rest order right after its creation
C8_Restores(c) ==
    /\ c.res = "ok"
    /\ Balance(c.st.pools, Reserving, last.caller)
       = Balance(last.out.mid.pools, Reserving, last.caller)
    /\ c.st.pools = last.out.mid.pools
    /\ RestOrder \notin {e.order : e \in open_orders(c.st)}
    /\ open_orders(c.st) = open_orders(last.out.mid)

\* C8: a successful create_order followed immediately by close_order with the
\* same key restores the user's balance in the reserving pool to its value
\* before the create and removes the order from the book.
C8_RoundTrip ==
    RestOrderCreated =>
        C8_Restores(close_order(s, last.caller, last.args.token,
                                last.args.amount - last.out.filled, last.args.price,
                                last.time, last.args.order_type))

\* a buy order has been created against a reservation of volume and fee
C8_Witness ==
    /\ RestOrderCreated
    /\ last.args.order_type = Buy
    /\ Balance(s.pools, PAYMENT_TOKEN_ID, last.caller)
       < Balance(last.out.mid.pools, PAYMENT_TOKEN_ID, last.caller)

\* what the claim says an order reserves
C9_Reserved(o) ==
    IF o.order_type = Buy
    THEN LET v == (o.amount * o.price) \div Pow10(o.decimals)
         IN v + Max(1, (v * TX_FEE) \div o.payment_token_fee)
    ELSE o.amount

\* C9: create_order succeeds only if the order's reserved liquidity (volume
\* plus trading fee of a buy, amount of a sell) is covered by the user's
\* balance in the reserving pool, and it debits exactly that much from that
\* one pool entry.
C9_Reservation ==
    RestOrderCreated =>
        /\ C9_Reserved(RestOrder) <= Balance(last.out.mid.pools, Reserving, last.caller)
        /\ \A id \in TokenIds, user \in Users :
              Balance(s.pools, id, user)
              = Balance(last.out.mid.pools, id, user)
                - (IF id = Reserving /\ user = last.caller THEN C9_Reserved(RestOrder) ELSE 0)

\* a principal with an open buy order has placed a second one
C9_Witness ==
    /\ RestOrderCreated
    /\ last.args.order_type = Buy
    /\ \E e \in open_orders(last.out.mid) :
          e.order.owner = last.caller /\ e.order.order_type = Buy

----------------------------------------------------------------------------
(* Properties: the rate limit (specification SpecRate) *)

\* the orders RateUser has created within the hour before now, at other
\* timestamps than now; under SpecRate no order is closed or filled
CreatedWithinHour ==
    {e \in open_orders(s) : /\ e.order.owner = RateUser
                            /\ e.order.timestamp + HOUR >= now
                            /\ e.order.timestamp # now}

\* c is the outcome of a create_order that was rejected by the rate limit
\* without adding an order or debiting a pool
RateLimited(c) ==
    /\ c.res = "too many orders within one hour; please try again later"
    /\ c.st.orders = s.orders
    /\ c.st.pools = s.pools

\* C10: after MAX_ORDERS_PER_HOUR order creations with distinct timestamps
\* inside one hour, the next create_order of that user inside the same hour is
\* rejected as rate limited, adds no order and debits no pool.
C10_RateLimit ==
    Cardinality(CreatedWithinHour) >= MAX_ORDERS_PER_HOUR =>
        RateLimited(create_order(s, RateUser, TOKEN, 7, 15, now, Buy))

\* what the code does: the creation after MAX_ORDERS_PER_HOUR + 1 creations is
\* the first one rejected
RateLimitOffByOne ==
    Cardinality(CreatedWithinHour) >= MAX_ORDERS_PER_HOUR + 1 =>
        RateLimited(create_order(s, RateUser, TOKEN, 7, 15, now, Buy))

----------------------------------------------------------------------------
(* Properties: dust *)

\* the order is not dust: ten times its trading fee does not exceed its volume
NotDust(o) ==
    Max(1, (((o.amount * o.price) \div Pow10(o.decimals)) * TX_FEE)
           \div o.payment_token_fee) * 10
    <= (o.amount * o.price) \div Pow10(o.decimals)

\* C11: in every reachable state every open order of every book, the
\* remainder of a partial fill included, satisfies trading_fee * 10 <= volume.
C11_NoDustOrder == \A e \in open_orders(s) : NotDust(e.order)

\* C11 for the orders that create_order has inserted
NoDustCreated ==
    RestOrderCreated => NotDust(RestOrder)

----------------------------------------------------------------------------
(* Properties: custody *)

\* the latest message is a withdraw, or a deposit, that has returned
IsWithdraw == last.op = "withdraw" /\ last.out.res # "await"

IsDeposit == last.op = "deposit_liquidity"

\* the ledger has answered the transfer of call c with an error
TransferFailed(c) == c.pc = "transfer" /\ c.reply \notin {"none", "ok"}

\* the call that the latest message ended with
EndedCall == last.out.call

\* funds_under_management of one token
Funds(S, token) == Get(funds_under_management(S), token, 0)

\* the state in which the withdraw of call c awaited the ledger
Awaiting(c) == withdraw_liquidity(c.start, c.user, c.token).st

\* C12: when the ledger transfer of a withdraw fails, the message returns an
\* error and credits the user's pool balance of the token by exactly the
\* balance it removed, which changes no other pool entry and raises
\* funds_under_management of the token by what the removal took; with no
\* message in between, the pools and funds_under_management are as they were
\* before the call.
C12_WithdrawRollsBack ==
    (IsWithdraw /\ TransferFailed(EndedCall)) =>
        /\ last.out.res # "ok"
        /\ EndedCall.balance
           = Balance(EndedCall.start.pools, EndedCall.token, EndedCall.user)
        /\ \A id \in TokenIds, user \in Users :
              Balance(s.pools, id, user)
              = Balance(last.pre.pools, id, user)
                + IF id = EndedCall.token /\ user = EndedCall.user
                  THEN EndedCall.balance ELSE 0
        /\ Funds(s, EndedCall.token) - Funds(last.pre, EndedCall.token)
           = Funds(EndedCall.start, EndedCall.token)
             - Funds(Awaiting(EndedCall), EndedCall.token)
        /\ last.pre = Awaiting(EndedCall) =>
              /\ s.pools = EndedCall.start.pools
              /\ funds_under_management(s) = funds_under_management(EndedCall.start)

\* the ledger has refused the transfer of a withdraw of a balance above the
\* fee, nothing else has happened since the call, and the balance is back
C12_Witness ==
    /\ IsWithdraw
    /\ TransferFailed(EndedCall)
    /\ last.pre = Awaiting(EndedCall)
    /\ token_pool_balance(s, EndedCall.token, EndedCall.user) > EndedCall.fee
    /\ token_pool_balance(last.pre, EndedCall.token, EndedCall.user) = 0

\* the main account of every ledger covers the funds under management
Solvent ==
    \A token \in TokenIds : balance_of(ledger, token, main_account) >= Funds(s, token)

\* the net amount of the deposit that has ended: the balance that the ledger
\* reported less the token's fee, and 0 if the query failed
NetDeposit ==
    IF EndedCall.balance > EndedCall.start.tokens[EndedCall.token].fee
    THEN EndedCall.balance - EndedCall.start.tokens[EndedCall.token].fee
    ELSE 0

\* the ledger has executed the transfer of the deposit that has ended
DepositTransferred == EndedCall.pc = "transfer" /\ EndedCall.reply = "ok"

\* C13: a deposit credits pool[token][user] only after the ledger has moved
\* the tokens to the main account (so the main account always covers the funds
\* under management), by exactly w = max(0, subaccount balance - token.fee),
\* which raises funds_under_management(token) by exactly w; if w = 0, or the
\* balance query or the transfer fails, no pool changes.
C13_DepositCredits ==
    /\ Solvent
    /\ IsDeposit =>
        /\ DepositTransferred => NetDeposit > 0
        /\ \A id \in TokenIds, user \in Users :
              Balance(s.pools, id, user)
              = Balance(last.pre.pools, id, user)
                + IF id = EndedCall.token /\ user = EndedCall.user /\ DepositTransferred
                  THEN NetDeposit ELSE 0
        /\ Funds(s, EndedCall.token)
           = Funds(last.pre, EndedCall.token)
             + IF DepositTransferred THEN NetDeposit ELSE 0
        /\ (NetDeposit = 0 \/ ~DepositTransferred) => s.pools = last.pre.pools

\* a deposit has credited a pool that other messages have changed since the
\* deposit began
C13_Witness ==
    /\ IsDeposit
    /\ DepositTransferred
    /\ token_pool_balance(s, EndedCall.token, EndedCall.user)
       = token_pool_balance(last.pre, EndedCall.token, EndedCall.user) + NetDeposit
    /\ last.pre.pools # EndedCall.start.pools

\* a deposit has ended without a transfer: the subaccount held no more than the fee
C13_NothingToDeposit ==
    /\ IsDeposit
    /\ EndedCall.pc = "balance_of"
    /\ EndedCall.reply = "ok"
    /\ last.out.res = "ok"

\* Call c is of a withdraw that began right after a deposit of the same user
\* and token had returned Ok, the pool entry being empty before that deposit
\* and the subaccount balance B = amount + fee above two fees.
AfterDeposit(c) ==
    /\ c.follows.deposit
    /\ c.follows.before = 0
    /\ c.follows.amount + c.fee > 2 * c.fee

\* C14: a deposit of a subaccount balance B > 2 * fee into an empty pool entry
\* followed by a withdraw of the same user, with a ledger that executes both
\* transfers, adds exactly B - 2 * fee to the user's own account and leaves the
\* user without a pool entry for the token.
C14_DepositWithdraw ==
    (last.op = "withdraw" /\ AfterDeposit(EndedCall)) =>
        /\ last.out.res # "amount smaller than the fee"
        /\ EndedCall.amount = (EndedCall.follows.amount + EndedCall.fee) - 2 * EndedCall.fee
        /\ last.out.res = "await" => token_pool_balance(s, EndedCall.token, EndedCall.user) = 0
        /\ last.out.res = "ok" =>
              /\ EndedCall.moved
                 = (EndedCall.follows.amount + EndedCall.fee) - 2 * EndedCall.fee
              /\ last.pre = Awaiting(EndedCall) =>
                     ~Has(s.pools[EndedCall.token], EndedCall.user)

\* the round trip has ended: the user's own account has received the tokens
C14_Witness ==
    /\ IsWithdraw
    /\ AfterDeposit(EndedCall)
    /\ last.out.res = "ok"
    /\ EndedCall.moved > 0
    /\ last.pre = Awaiting(EndedCall)
    /\ balance_of(ledger, EndedCall.token, wallet(EndedCall.user)) >= EndedCall.moved

----------------------------------------------------------------------------
(* Properties: relisting *)

\* the latest message has listed a token that was listed before with another
\* fee or other decimals
Relisted ==
    /\ last.op = "list_token"
    /\ Has(last.pre.tokens, last.args.token)
    /\ \/ last.pre.tokens[last.args.token].fee # s.tokens[last.args.token].fee
       \/ last.pre.tokens[last.args.token].decimals # s.tokens[last.args.token].decimals

\* the liquidity that the open orders of user in the book of token reserve in
\* pool id
ReservedBy(S, token, user, id) ==
    IF ~Has(S.orders, token) THEN 0
    ELSE (IF id = PAYMENT_TOKEN_ID
          THEN sum_reserved({o \in S.orders[token].buyers : o.owner = user}) ELSE 0)
         + (IF id = token
            THEN sum_reserved({o \in S.orders[token].sellers : o.owner = user}) ELSE 0)

BookEmpty(S, token) ==
    Has(S.orders, token) => S.orders[token].buyers = {} /\ S.orders[token].sellers = {}

\* C15: when a listed token is listed again with another fee or other
\* decimals, the book of the token is empty afterwards, every pool entry has
\* grown by exactly the reserved liquidity of its owner's orders in that book,
\* and every other book is unchanged.
C15_RelistClosesOrders ==
    Relisted =>
        /\ BookEmpty(last.out.mid, last.args.token)
        /\ BookEmpty(s, last.args.token)
        /\ \A id \in TokenIds, user \in Users :
              Balance(last.out.mid.pools, id, user)
              = Balance(last.pre.pools, id, user)
                + ReservedBy(last.pre, last.args.token, user, id)
        /\ \A token \in DOMAIN last.pre.orders \ {last.args.token} :
              last.out.mid.orders[token] = last.pre.orders[token]

\* a relisting has closed buy orders and sell orders of two owners
C15_Witness ==
    /\ Relisted
    /\ Has(last.pre.orders, last.args.token)
    /\ \E b \in last.pre.orders[last.args.token].buyers :
          \E a \in last.pre.orders[last.args.token].sellers : a.owner # b.owner
    /\ last.out.mid.orders[last.args.token] = EmptyBook

----------------------------------------------------------------------------
(* Properties: rejected orders *)

\* a token id that is never listed
Unlisted == TOKEN + 1

\* create_order has returned r: if r is an error then no pool balance has
\* changed and the open orders are the same
Rejected(r) ==
    r.res # "ok" =>
        /\ r.st.pools = s.pools
        /\ \A token \in DOMAIN s.orders :
              Has(r.st.orders, token) /\ r.st.orders[token] = s.orders[token]
        /\ \A token \in DOMAIN r.st.orders \ DOMAIN s.orders :
              r.st.orders[token] = EmptyBook

\* create_order with the key of the open order e
Again(e) ==
    create_order(s, e.order.owner, e.token, e.order.amount, e.order.price,
                 e.order.timestamp, e.order.order_type)

\* the owner of the open order e can pay for an equal order
Affordable(e) ==
    token_pool_balance(s, reserving_pool(e.token, e.order.order_type), e.order.owner)
    >= reserved_liquidity(e.order)

\* no earlier check of create_order rejects an order equal to the open order
\* e: the principal is within the rate limit, can pay, and the order is not dust
PassesChecks(e) ==
    /\ record_activity(s, e.token, e.order.owner, e.order.timestamp).res = "ok"
    /\ Affordable(e)
    /\ NotDust(e.order)

\* Every create_order that returns an error changes no pool balance and adds
\* or removes no open order.
RejectedOrderChangesNothing ==
    \A user \in Users, token \in TokenIds \cup {Unlisted}, amount \in Amounts,
       price \in Prices, order_type \in OrderTypes :
        Rejected(create_order(s, user, token, amount, price, now, order_type))

\* C16 as stated: a rejected create_order changes no pool balance and adds or
\* removes no open order, and placing an order equal to an open one returns the
\* error "order exists already" and debits nothing.
C16_RejectedOrder ==
    /\ RejectedOrderChangesNothing
    /\ \A e \in open_orders(s) :
          Again(e).res = "order exists already" /\ Rejected(Again(e))

\* C16, amended: a rejected create_order changes no pool balance and adds or
\* removes no open order; placing an order equal to an open one returns an
\* error and debits nothing, and the error is "order exists already" whenever
\* no earlier check of create_order rejects the order.
C16_RejectedOrderAmended ==
    /\ RejectedOrderChangesNothing
    /\ \A e \in open_orders(s) :
          /\ Again(e).res # "ok"
          /\ Rejected(Again(e))
          /\ PassesChecks(e) <=> Again(e).res = "order exists already"

\* the owner of an open order can pay for a second such order, and placing it
\* is rejected as a duplicate
C16_Witness ==
    \E e \in open_orders(s) :
        /\ e.order.timestamp = now
        /\ PassesChecks(e)
        /\ Again(e).res = "order exists already"
        /\ Again(e).st.pools = s.pools

\* a principal without a pool entry, an unlisted token and a price of 0 are
\* rejected in one state
C16_Rejections ==
    /\ create_order(s, REVENUE, TOKEN, 20, 15, now, Sell).res = "no funds available"
    /\ create_order(s, 1, Unlisted, 20, 15, now, Sell).res = "token not listed"
    /\ create_order(s, 1, TOKEN, 20, 0, now, Sell).res = "limit price is 0"
    /\ create_order(s, 1, TOKEN, 7, 10, now, Buy).res = "the order is too small"
    /\ open_orders(s) # {}

----------------------------------------------------------------------------
(* Properties: closing an order *)

\* the open order e has the key of the call
Matches(e, user, token, amount, price, timestamp, order_type) ==
    /\ e.token = token
    /\ e.order.order_type = order_type
    /\ e.order.owner = user
    /\ e.order.price = price
    /\ e.order.timestamp = timestamp
    /\ e.order.amount = amount

\* the amounts of the calls: those of the orders placed, and those that fills
\* have left
CloseAmounts == Amounts \cup {e.order.amount : e \in open_orders(s)}

\* close_order has returned r for a key that no open order has
NotFound(r) == r.res \in {"no token found", "no order found"} /\ r.st = s

\* close_order with the arguments of the latest message
CloseAgain ==
    close_order(s, last.caller, last.args.token, last.args.amount, last.args.price,
                last.args.timestamp, last.args.order_type)

\* C17: close_order with a key (side, owner, price, created_at, amount) that
\* no open order has, or for a token without a book, returns an error and
\* leaves the state as it is; so closing the order that has just been closed
\* returns an error and refunds nothing.
C17_CloseUnknownOrder ==
    /\ \A user \in Users, token \in TokenIds \cup {Unlisted}, amount \in CloseAmounts,
          price \in Prices, timestamp \in LifeTimes, order_type \in OrderTypes :
           (\A e \in open_orders(s) :
               ~Matches(e, user, token, amount, price, timestamp, order_type))
           => NotFound(close_order(s, user, token, amount, price, timestamp, order_type))
    /\ IsClose => NotFound(CloseAgain)

\* an order has been closed while another stays open, and closing it again
\* finds no order
C17_Witness ==
    /\ IsClose
    /\ open_orders(s) # {}
    /\ CloseAgain.res = "no order found"
    /\ close_order(s, last.caller, Unlisted, last.args.amount, last.args.price,
                   last.args.timestamp, last.args.order_type).res = "no token found"

\* close_order called by user in state S has returned r: if it has closed an
\* order, then one open order is gone, its owner is user, and the only pool
\* entry that has changed is user's entry in the reserving pool, which has
\* grown by the reserved liquidity of that order
ClosesOwn(S, r, user) ==
    r.res = "ok" =>
        \E e \in open_orders(S) :
            /\ e.order.owner = user
            /\ open_orders(r.st) = open_orders(S) \ {e}
            /\ \A id \in TokenIds, u \in Users :
                  Balance(r.st.pools, id, u)
                  = Balance(S.pools, id, u)
                    + IF u = user /\ id = reserving_pool(e.token, e.order.order_type)
                      THEN reserved_liquidity(e.order) ELSE 0

\* close_order called by user with the key of the open order e, but for the owner
CloseAs(user, e) ==
    close_order(s, user, e.token, e.order.amount, e.order.price, e.order.timestamp,
                e.order.order_type)

\* C18: close_order called by a user removes only an open order of that user
\* and credits the refund to that user's entry of the reserving pool; called
\* with the price, timestamp, amount and side of another user's order it
\* removes and credits nothing unless the caller has such an order too.
C18_CloseOwnOrder ==
    /\ \A user \in Users, e \in open_orders(s) :
          /\ ClosesOwn(s, CloseAs(user, e), user)
          /\ [e EXCEPT !.order.owner = user] \notin open_orders(s) =>
                CloseAs(user, e).res = "no order found" /\ CloseAs(user, e).st = s
    /\ IsClose => ClosesOwn(last.pre, last.out, last.caller)

\* a user has closed an own order, an equal order of another user stays open,
\* and the call would not close that one
C18_Witness ==
    /\ IsClose
    /\ \E e \in open_orders(s) :
          /\ e.order.owner # last.caller
          /\ Matches(e, e.order.owner, last.args.token, last.args.amount, last.args.price,
                     last.args.timestamp, last.args.order_type)
          /\ CloseAs(last.caller, e).res = "no order found"

----------------------------------------------------------------------------
(* Properties: the revenue account *)

\* C19: once the revenue account is set, it changes only in a call of
\* set_revenue_account made by the revenue account itself; every other step
\* leaves it as it is.
C19_RevenueAccount ==
    [][(s.revenue_account # NoPrincipal /\ s'.revenue_account # s.revenue_account)
       => (last'.op = "set_revenue_account" /\ last'.caller = s.revenue_account)]_vars

\* the revenue account has handed the role over to another principal, and
\* before that another principal has called in vain
C19_Witness ==
    /\ last.op = "set_revenue_account"
    /\ last.pre.revenue_account = last.caller
    /\ s.revenue_account \notin {NoPrincipal, last.caller}
    /\ last.pre.pools # Deployed.pools

\* a principal that is not the revenue account has called set_revenue_account
C19_Refused ==
    /\ last.op = "set_revenue_account"
    /\ last.pre.revenue_account \notin {NoPrincipal, last.caller}
    /\ s.revenue_account = last.pre.revenue_account

----------------------------------------------------------------------------
(* Properties: expiry *)

IsCleanUp == last.op = "clean_up"

\* the order is older than ORDER_EXPIRATION_DAYS at the given time
Expired(order, time) == order.timestamp + ORDER_EXPIRATION_DAYS * DAY < time

\* the liquidity that the expired open orders of user reserve in pool id
ExpiredReserved(S, time, user, id) ==
    checked_sum([token \in DOMAIN S.orders |->
        (IF id = PAYMENT_TOKEN_ID
         THEN sum_reserved({o \in S.orders[token].buyers :
                              o.owner = user /\ Expired(o, time)})
         ELSE 0)
        + (IF id = token
           THEN sum_reserved({o \in S.orders[token].sellers :
                                o.owner = user /\ Expired(o, time)})
           ELSE 0)])

\* C20: after clean_up(now) the open orders are exactly the orders that were
\* open before with created_at + 90 days >= now, each of them unchanged, and
\* every pool entry has grown by exactly the reserved liquidity of its owner's
\* expired orders.
C20_Expiry ==
    IsCleanUp =>
        /\ open_orders(s) = {e \in open_orders(last.pre) : ~Expired(e.order, last.time)}
        /\ \A id \in TokenIds, user \in Users :
              Balance(s.pools, id, user)
              = Balance(last.pre.pools, id, user)
                + ExpiredReserved(last.pre, last.time, user, id)

\* clean_up has closed an expired order and has left open an order that is
\* exactly ORDER_EXPIRATION_DAYS old
C20_Witness ==
    /\ IsCleanUp
    /\ \E e \in open_orders(last.pre) : Expired(e.order, last.time)
    /\ \E e \in open_orders(s) :
          e.order.timestamp + ORDER_EXPIRATION_DAYS * DAY = last.time

----------------------------------------------------------------------------
(* Properties: delisting *)

\* the token has had no activity for more than 2 * ORDER_EXPIRATION_DAYS
Idle(S, token, time) == S.tokens[token].timestamp + 2 * ORDER_EXPIRATION_DAYS * DAY < time

\* the token has no open order and no user has a pool entry for it
Unused(S, token) ==
    /\ BookEmpty(S, token)
    /\ Has(S.pools, token) => S.pools[token] = EmptyMap

\* the state of the latest clean_up after it has closed the expired orders
Swept == close_expired(last.pre, last.time)

\* C21: clean_up(now) removes a listed token, its metadata and its pool, only
\* if the token's last activity lies more than 180 days before now, its book
\* has no open order and no user has a pool entry for it; every other token
\* stays listed.
C21_Delisting ==
    IsCleanUp =>
        \A token \in DOMAIN last.pre.tokens :
            (~Has(s.tokens, token) \/ ~Has(s.pools, token))
            => (Idle(last.pre, token, last.time) /\ Unused(Swept, token))

\* what the code does: a token without orders and pool entries is removed as
\* soon as the clock has moved on since its last activity
DelistsUntouched ==
    IsCleanUp =>
        \A token \in DOMAIN last.pre.tokens :
            (~Has(s.tokens, token) \/ ~Has(s.pools, token))
            <=> (last.pre.tokens[token].timestamp < last.time /\ Unused(Swept, token))

----------------------------------------------------------------------------
(* Properties: market orders *)

\* a trade of this type on the token finds no order: the token has no book, or
\* the counter side of its book is empty
NothingToFill(S, token, trade_type) ==
    Has(S.orders, token) => counter_side(S, token, trade_type) = {}

\* trade has returned r: it is Filled(0), and the pools, the books and the
\* archived orders are those of the state s
FilledNothing(r) ==
    /\ r.res = "ok"
    /\ r.exec = "Filled"
    /\ r.filled = 0
    /\ r.st.pools = s.pools
    /\ r.st.orders = s.orders
    /\ \A token \in TokenIds \cup {Unlisted} :
          Get(r.st.order_archive, token, <<>>) = Get(s.order_archive, token, <<>>)
    /\ r.st.tokens = s.tokens

\* C22: a market order (price 0) on a token that has no book, or whose book
\* has an empty counter side, returns Filled(0), creates no rest order and
\* changes no pool, no book and no archived order.
C22_MarketOrderFindsNothing ==
    \A user \in Users, token \in TokenIds \cup {Unlisted}, amount \in Amounts,
       trade_type \in OrderTypes :
        NothingToFill(s, token, trade_type)
        => FilledNothing(trade(s, trade_type, user, token, amount, 0, now))

\* a market order has come back with Filled(0) from a book whose counter side
\* was empty while its own side holds an order
C22_Witness ==
    /\ IsTrade
    /\ last.args.price = 0
    /\ last.out.exec = "Filled"
    /\ last.out.filled = 0
    /\ Has(last.pre.orders, last.args.token)
    /\ Side(s.orders[last.args.token], last.args.order_type) # {}
    /\ s.pools = last.pre.pools

----------------------------------------------------------------------------
(* Properties: partial fills *)

\* the trader can settle a fill of a tokens of the resting order O
CanSettle(S, trader, token, O, a) ==
    IF O.order_type = Buy THEN Balance(S.pools, token, trader) >= a
    ELSE Balance(S.pools, PAYMENT_TOKEN_ID, trader)
         >= reserved_liquidity([O EXCEPT !.amount = a, !.order_type = Buy])

\* trade has returned r for a tokens against the best order O of the book of
\* the state s: r is Ok with filled = a, a piece of O of amount a is at the
\* front of the archive, O is gone from the book, and for a < O.amount the
\* book holds the remainder of O instead.
FillsBest(r, token, O, a) ==
    /\ r.res = "ok"
    /\ r.filled = a
    /\ Has(r.st.order_archive, token)
    /\ r.st.order_archive[token]
       = <<[O EXCEPT !.amount = a, !.executed = now]>> \o Get(s.order_archive, token, <<>>)
    /\ Side(r.st.orders[token], O.order_type)
       = (Side(s.orders[token], O.order_type) \ {O})
         \cup (IF a < O.amount THEN {[O EXCEPT !.amount = O.amount - a]} ELSE {})
    /\ Side(r.st.orders[token], IF O.order_type = Buy THEN Sell ELSE Buy)
       = Side(s.orders[token], IF O.order_type = Buy THEN Sell ELSE Buy)

\* the best order that a trade of this type takes from the book of the token
Best(token, trade_type) == best_order(counter_side(s, token, trade_type), trade_type)

\* the split of O at a leaves a remainder that execute_trade accepts: no equal
\* order is open, its volume exceeds its fee, and the two parts reserve no more
\* than O did
SplitFits(O, a) ==
    /\ \A e \in open_orders(s) :
          e.order.order_type = O.order_type
          => cmp(e.order, [O EXCEPT !.amount = O.amount - a]) # 0
    /\ volume([O EXCEPT !.amount = O.amount - a])
       > trading_fee(O.payment_token_fee, volume([O EXCEPT !.amount = O.amount - a]))
    /\ reserved_liquidity([O EXCEPT !.amount = O.amount - a])
       + reserved_liquidity([O EXCEPT !.amount = a]) <= reserved_liquidity(O)

\* C23: for the best counter-side order O of every reachable state and every
\* trader with sufficient funds, a trade for exactly O.amount removes O from
\* the book and archives it whole, and a trade for any a with 0 < a < O.amount
\* succeeds with filled = a, archives a piece of amount a and leaves in the
\* book exactly one remainder with O's side, owner, price and timestamp and
\* the amount O.amount - a.
C23_PartialFill ==
    \A token \in DOMAIN s.orders, trade_type \in OrderTypes, trader \in Traders :
        counter_side(s, token, trade_type) # {} =>
            \A a \in 1..Best(token, trade_type).amount :
                CanSettle(s, trader, token, Best(token, trade_type), a)
                => FillsBest(trade(s, trade_type, trader, token, a, 0, now), token,
                             Best(token, trade_type), a)

\* what the code does: the trade succeeds as claimed when the remainder is an
\* order that the split accepts
FillsWhenSplitFits ==
    \A token \in DOMAIN s.orders, trade_type \in OrderTypes, trader \in Traders :
        counter_side(s, token, trade_type) # {} =>
            \A a \in 1..Best(token, trade_type).amount :
                (/\ CanSettle(s, trader, token, Best(token, trade_type), a)
                 /\ a < Best(token, trade_type).amount
                        => SplitFits(Best(token, trade_type), a))
                => FillsBest(trade(s, trade_type, trader, token, a, 0, now), token,
                             Best(token, trade_type), a)

----------------------------------------------------------------------------
(* Properties: withdrawals *)

\* this step is the beginning of a withdraw message (the beginning of a
\* deposit sends a call and leaves `last` as it is)
WithdrawBegins ==
    /\ steps' # steps
    /\ last'.op = "withdraw"
    /\ last' # last \/ calls' = calls

\* C24: a withdraw of a user whose pool balance of the token is at most the
\* token's ledger fee (a missing entry included) is rejected with an error,
\* removes and changes no pool entry and issues no ledger transfer.
C24_WithdrawRejected ==
    [][(/\ WithdrawBegins
        /\ token_pool_balance(s, last'.args.token, last'.caller)
           <= s.tokens[last'.args.token].fee)
       => (/\ last'.out.res = "amount smaller than the fee"
           /\ s' = s
           /\ calls' = calls
           /\ ledger' = ledger)]_vars

\* a withdraw has been rejected for a user who has a pool entry of the token,
\* and the entry is still there
C24_Witness ==
    /\ last.op = "withdraw"
    /\ last.out.res = "amount smaller than the fee"
    /\ Has(last.pre.pools[EndedCall.token], EndedCall.user)
    /\ s = last.pre
    /\ EndedCall.balance <= EndedCall.fee

\* a withdraw has been rejected for a user without a pool entry
C24_NoEntry ==
    /\ last.op = "withdraw"
    /\ last.out.res = "amount smaller than the fee"
    /\ ~Has(s.pools[EndedCall.token], EndedCall.user)

\* C25: a successful withdraw of the pool balance b removes the user's pool
\* entry of the token, lowers funds_under_management of the token by exactly
\* b, issues one ledger transfer of b - fee to the user's own account and
\* returns b - fee.
C25_WithdrawSucceeds ==
    /\ (last.op = "withdraw" /\ last.out.res = "await") =>
           /\ ~Has(s.pools[EndedCall.token], EndedCall.user)
           /\ EndedCall.balance = Balance(last.pre.pools, EndedCall.token, EndedCall.user)
           /\ Funds(s, EndedCall.token)
              = Funds(last.pre, EndedCall.token) - EndedCall.balance
    /\ (IsWithdraw /\ last.out.res = "ok") =>
           /\ EndedCall.balance
              = Balance(EndedCall.start.pools, EndedCall.token, EndedCall.user)
           /\ ~Has(Awaiting(EndedCall).pools[EndedCall.token], EndedCall.user)
           /\ Funds(Awaiting(EndedCall), EndedCall.token)
              = Funds(EndedCall.start, EndedCall.token) - EndedCall.balance
           /\ s = last.pre
           /\ EndedCall.pc = "transfer"
           /\ EndedCall.reply = "ok"
           /\ TransferTo(EndedCall) = wallet(EndedCall.user)
           /\ EndedCall.amount = EndedCall.balance - EndedCall.fee
           /\ EndedCall.moved = EndedCall.balance - EndedCall.fee
           /\ last.args.amount = EndedCall.balance - EndedCall.fee
           /\ last.pre = Awaiting(EndedCall) =>
                  ~Has(s.pools[EndedCall.token], EndedCall.user)

\* a withdraw has returned Ok while other messages have changed the state
\* since it began, and the user's own account holds the tokens
C25_Witness ==
    /\ IsWithdraw
    /\ last.out.res = "ok"
    /\ EndedCall.moved > 0
    /\ last.pre # Awaiting(EndedCall)
    /\ balance_of(ledger, EndedCall.token, wallet(EndedCall.user)) >= EndedCall.moved

----------------------------------------------------------------------------
(* Properties: listing *)

IsListing == last.op = "list_token"

\* the latest list_token has run to the charge: the listing was made
Charging == IsListing /\ last.out.res \in {"ok", "panic: payment failed"}

\* what the charge of the listing price adds to pool[id][user]
ListingCharge(id, user) ==
    IF id # PAYMENT_TOKEN_ID THEN 0
    ELSE (IF user = last.pre.revenue_account THEN effective_amount ELSE 0)
         - (IF user = last.caller THEN effective_amount ELSE 0)

\* C26: whatever the caller does between the call of list_token and the
\* answer of the ledger (withdraw, trade, another list_token), the message
\* changes the listing of a token only if in the same step the caller's
\* payment pool is debited by exactly the listing price and the revenue
\* account's payment pool is credited by it; if the caller cannot pay any
\* more, the message changes nothing.
C26_ListingIsPaid ==
    IsListing =>
        /\ last.out.res # "ok" => s = last.pre
        /\ last.out.res = "ok" =>
              /\ Balance(last.out.mid.pools, PAYMENT_TOKEN_ID, last.caller)
                 >= effective_amount
              /\ \A id \in TokenIds, user \in Users :
                    Balance(s.pools, id, user)
                    = Balance(last.out.mid.pools, id, user) + ListingCharge(id, user)
              /\ s.tokens = last.out.mid.tokens
              /\ s.orders = last.out.mid.orders
        /\ (/\ Charging
            /\ Balance(last.out.mid.pools, PAYMENT_TOKEN_ID, last.caller)
               < effective_amount)
           => s = last.pre

\* the caller could pay when list_token was called and cannot pay when the
\* ledger has answered: the listing, which would change the metadata of the
\* token, is undone
C26_Witness ==
    /\ IsListing
    /\ last.out.res = "panic: payment failed"
    /\ Balance(EndedCall.start.pools, PAYMENT_TOKEN_ID, last.caller) >= effective_amount
    /\ last.out.mid.tokens # last.pre.tokens
    /\ s.tokens = last.pre.tokens

\* a token that was not listed has been listed and paid for, after another
\* message has changed the state since the call
C26_Listed ==
    /\ IsListing
    /\ last.out.res = "ok"
    /\ ~Has(last.pre.tokens, last.args.token)
    /\ Has(s.tokens, last.args.token)
    /\ last.pre # EndedCall.start

----------------------------------------------------------------------------
(* Properties: overflow *)

\* the product, the fee numerator or the volume with its fee leaves u128
Exceeds(o) ==
    \/ o.amount * o.price > U128_MAX
    \/ volume(o) * TX_FEE > U128_MAX
    \/ volume(o) + trading_fee_unbounded(o.payment_token_fee, volume(o)) > U128_MAX

\* what the code computes for o is what integer arithmetic gives
Exact(o) ==
    /\ trading_fee(o.payment_token_fee, volume(o))
       = trading_fee_unbounded(o.payment_token_fee, volume(o))
    /\ o.order_type = Buy =>
          reserved_liquidity(o)
          = volume(o) + trading_fee_unbounded(o.payment_token_fee, volume(o))

\* C27: no order is accepted whose amount * price, whose fee numerator
\* volume * TX_FEE or whose reservation volume + trading_fee does not fit in
\* u128 (such an order is rejected and changes no pool and no book), and the
\* trading fee and the reservation of every accepted order are the ones that
\* arithmetic without wrapping or saturation gives.
C27_Overflow ==
    \A e \in open_orders(s) : ~Exceeds(e.order) /\ Exact(e.order)

\* create_order rejects every order whose amount * price leaves u128, and the
\* rejection changes no pool and no book
ProductIsChecked ==
    \A user \in Traders, amount \in Amounts, price \in WidePrices,
       order_type \in OrderTypes :
        volume_overflows(Order(order_type, user, amount, price, now, 0, 0)) =>
            /\ create_order(s, user, TOKEN, amount, price, now, order_type).res # "ok"
            /\ Rejected(create_order(s, user, TOKEN, amount, price, now, order_type))

\* a buy order is open whose reservation is below its volume with the fee
Underfunded ==
    \E e \in open_orders(s) :
        /\ e.order.order_type = Buy
        /\ reserved_liquidity(e.order)
           < volume(e.order)
             + trading_fee_unbounded(e.order.payment_token_fee, volume(e.order))

----------------------------------------------------------------------------
(* Properties: freed liquidity *)

\* the i-th fill of the latest trade has split a resting order
SplitFill(i) == Fills[i].partial

\* C28: whenever the split of a resting buy order frees liquidity (its
\* reservation exceeds the reservations of the remainder and of the filled
\* piece by freed > 0), the split raises the payment-pool balance of the
\* order's owner by exactly freed, also when the owner has no entry in the
\* payment pool.
C28_FreedCredited ==
    IsTrade =>
        \A i \in DOMAIN Fills :
            (SplitFill(i) /\ Fills[i].whole.order_type = Buy /\ Fills[i].freed > 0) =>
                Balance(Fills[i].before, PAYMENT_TOKEN_ID, Fills[i].whole.owner)
                = Balance(Fills[i].presplit, PAYMENT_TOKEN_ID, Fills[i].whole.owner)
                  + Fills[i].freed

\* the freed liquidity is credited to every owner who has an entry in the
\* payment pool
FreedCreditedToEntry ==
    IsTrade =>
        \A i \in DOMAIN Fills :
            (/\ SplitFill(i)
             /\ Fills[i].freed > 0
             /\ Has(Fills[i].presplit[PAYMENT_TOKEN_ID], Fills[i].whole.owner)) =>
                Fills[i].before[PAYMENT_TOKEN_ID][Fills[i].whole.owner]
                = Fills[i].presplit[PAYMENT_TOKEN_ID][Fills[i].whole.owner]
                  + Fills[i].freed

\* the order type a trade must have to be matched with the order o
Counter(o) == IF o.order_type = Buy THEN Sell ELSE Buy

\* the split of the open order e for a fill of a, as execute_trade does it
\* when it has popped the order
SplitOf(e, a) ==
    split_order(popped(s, e.token, e.order), Counter(e.order), e.token, e.order, a)

\* C29: a split frees liquidity only when a trader sells into a resting buy
\* order: every split of an open sell order, by any amount below its own,
\* frees 0, no split fails the assertions `trade_type.sell()` and
\* `order.order_type.buy()`, and every fill of the latest trade that freed
\* liquidity is the split of a buy order by a sell trade.
C29_FreedOnlyOnSell ==
    /\ \A e \in open_orders(s) : \A a \in 1 .. (e.order.amount - 1) :
          /\ SplitOf(e, a).res # "panic: freed liquidity on a buy trade"
          /\ e.order.order_type = Sell => SplitOf(e, a).freed = 0
    /\ IsTrade =>
          \A i \in DOMAIN Fills :
              Fills[i].freed # 0 =>
                  /\ SplitFill(i)
                  /\ last.args.order_type = Sell
                  /\ Fills[i].whole.order_type = Buy

\* a buy trade has split a resting sell order, whose remainder is open and
\* can be split again
C29_Witness ==
    /\ IsTrade
    /\ last.args.order_type = Buy
    /\ \E i \in DOMAIN Fills :
          /\ SplitFill(i)
          /\ Fills[i].whole.order_type = Sell
          /\ Fills[i].freed = 0
    /\ \E e \in open_orders(s) : e.order.order_type = Sell /\ e.order.amount > 1

\* a sell trade has split a resting buy order and freed liquidity
C29_Freed ==
    /\ IsTrade
    /\ \E i \in DOMAIN Fills : Fills[i].freed > 0

----------------------------------------------------------------------------
(* Properties: the sides of a book *)

\* every order of the set S is an open order of the given type
Pure(S, order_type) == \A o \in S : o.order_type = order_type /\ o.executed = 0

\* C30: in every reachable state every order among the buyers of a book is a
\* buy order with executed = 0 and every order among the sellers is a sell
\* order with executed = 0, so that any two orders of one side, and an order
\* created for a side and any order of it, can be compared.
C30_BookPurity ==
    \A token \in DOMAIN s.orders :
        /\ Pure(s.orders[token].buyers, Buy)
        /\ Pure(s.orders[token].sellers, Sell)
        /\ \A order_type \in OrderTypes :
              \A a \in Side(s.orders[token], order_type) :
                  /\ \A b \in Side(s.orders[token], order_type) : cmp_defined(a, b)
                  /\ cmp_defined(a, Order(order_type, a.owner, a.amount, a.price, now,
                                          a.decimals, a.payment_token_fee))

\* a trade has split a resting order and left a book with orders on both
\* sides, next to an archive of executed orders
C30_Witness ==
    /\ IsTrade
    /\ \E i \in DOMAIN Fills : SplitFill(i)
    /\ s.orders[last.args.token].buyers # {}
    /\ s.orders[last.args.token].sellers # {}
    /\ Len(s.order_archive[last.args.token]) > 0

----------------------------------------------------------------------------
(* Properties: what a withdrawal leaves alone *)

\* withdraw_liquidity(user, id) returned r in the state S: it took the free
\* balance pools[id][user] and nothing else
TakesFreeBalance(S, r, user, id) ==
    /\ r.res = "ok"
    /\ r.amount = S.pools[id][user]
    /\ ~Has(r.st.pools[id], user)
    /\ DOMAIN r.st.pools = DOMAIN S.pools
    /\ \A token \in DOMAIN S.pools : \A principal \in DOMAIN S.pools[token] :
          (token # id \/ principal # user) =>
              /\ Has(r.st.pools[token], principal)
              /\ r.st.pools[token][principal] = S.pools[token][principal]
    /\ \A token \in DOMAIN S.pools :
          DOMAIN r.st.pools[token] \subseteq DOMAIN S.pools[token]
    /\ [r.st EXCEPT !.pools = S.pools] = S

\* C31: withdraw_liquidity(user, id) takes the pool balance of the user in
\* the token id and nothing else: the open orders (with the liquidity they
\* reserve), the balances of the other principals and the user's balances in
\* the other tokens stay as they are; a user without an entry in the pool
\* gets an error and nothing changes.
C31_WithdrawTakesOwnBalance ==
    \A user \in Users, id \in TokenIds \cup {Unlisted} :
        IF Has(s.pools, id) /\ Has(s.pools[id], user)
        THEN TakesFreeBalance(s, withdraw_liquidity(s, user, id), user, id)
        ELSE /\ withdraw_liquidity(s, user, id).res # "ok"
             /\ withdraw_liquidity(s, user, id).st = s

\* a principal with an open order has withdrawn from the pool that the order
\* reserved in, while another principal holds a balance in that pool
C31_Witness ==
    /\ IsWithdraw
    /\ Has(last.pre.pools[last.args.token], last.caller)
    /\ ~Has(s.pools[last.args.token], last.caller)
    /\ \E e \in open_orders(s) :
          /\ e.order.owner = last.caller
          /\ reserving_pool(e.token, e.order.order_type) = last.args.token
          /\ e \in open_orders(last.pre)
    /\ \E principal \in DOMAIN s.pools[last.args.token] :
          s.pools[last.args.token][principal] > 0

----------------------------------------------------------------------------
(* Properties: closing orders in bulk *)

\* the closures, token filters and chunk sizes tried in every state
Closures(S) ==
    {any_order(S), {o \in any_order(S) : o.owner = 1},
     {o \in any_order(S) : o.order_type = Buy}}

TokenFilters == {{}, {TOKEN}, {PAYMENT_TOKEN_ID}}

Chunks == {0, 1, 2, 10000}

\* the open orders that satisfy the closure in the filtered tokens
Selected(S, predicate, token_filter) ==
    {e \in open_orders(S) :
        /\ e.order \in predicate
        /\ token_filter = {} \/ e.token \in token_filter}

\* close_orders_by_condition(predicate, token_filter, max_chunk) has turned S
\* into r.st and returned r.closed
ClosesSelected(S, r, predicate, token_filter, max_chunk) ==
    /\ r.closed = Cardinality(open_orders(S) \ open_orders(r.st))
    /\ r.closed = IF Cardinality(Selected(S, predicate, token_filter)) < max_chunk
                  THEN Cardinality(Selected(S, predicate, token_filter))
                  ELSE max_chunk
    /\ open_orders(r.st) \subseteq open_orders(S)
    /\ open_orders(S) \ open_orders(r.st) \subseteq Selected(S, predicate, token_filter)
    /\ \A user \in Users, id \in TokenIds :
          Balance(r.st.pools, id, user)
          = Balance(S.pools, id, user)
            + ReservedBy(S, TOKEN, user, id) - ReservedBy(r.st, TOKEN, user, id)
    /\ [r.st EXCEPT !.pools = S.pools, !.orders = S.orders] = S

\* C32: close_orders_by_condition(pred, filter, max) closes min(max, number
\* of open orders that satisfy pred in the filtered tokens) orders (all tokens
\* when the filter is empty) and returns that number; the reservation of
\* every closed order is added to the pool balance of its owner, and every
\* order that does not satisfy pred or is outside the filter stays open.
C32_ClosesByCondition ==
    \A predicate \in Closures(s), token_filter \in TokenFilters, max_chunk \in Chunks :
        ClosesSelected(s, close_orders_by_condition(s, predicate, token_filter, max_chunk),
                       predicate, token_filter, max_chunk)

\* two open orders of principal 1 and an order of principal 2: a chunk of 1
\* closes one order of principal 1 and refunds it
C32_Witness ==
    /\ Cardinality(Selected(s, {o \in any_order(s) : o.owner = 1}, {TOKEN})) >= 2
    /\ \E e \in open_orders(s) : e.order.owner = 2
    /\ close_orders_by_condition(s, {o \in any_order(s) : o.owner = 1}, {TOKEN}, 1).closed
       = 1
    /\ \E id \in TokenIds :
          Balance(close_orders_by_condition(s, {o \in any_order(s) : o.owner = 1},
                                            {TOKEN}, 1).st.pools, id, 1)
          > Balance(s.pools, id, 1)

----------------------------------------------------------------------------
(* Properties: relisting with the same metadata *)

\* add_token(id, ..) at `time` has turned S into r.st: the timestamp of the
\* token is overwritten and nothing else has changed
SameListing(S, r, id, time) ==
    /\ r.res = "ok"
    /\ r.st.orders = S.orders
    /\ \A token \in TokenIds, user \in Users :
          Balance(r.st.pools, token, user) = Balance(S.pools, token, user)
    /\ \A token \in DOMAIN S.pools :
          Has(r.st.pools, token) /\ DOMAIN r.st.pools[token] = DOMAIN S.pools[token]
    /\ r.st.tokens = [S.tokens EXCEPT ![id].timestamp = time]
    /\ [r.st EXCEPT !.tokens = S.tokens, !.pools = S.pools] = S

\* the latest message has listed a token that was listed with the same fee
\* and the same decimals
RelistedSame ==
    /\ last.op = "list_token"
    /\ Has(last.pre.tokens, last.args.token)
    /\ ~Relisted

\* C33: listing a listed token again with the fee and the decimals it has
\* leaves every open order and every pool balance as it is and overwrites
\* only the metadata with its timestamp (the listing price that list_token
\* charges afterwards is not part of the listing).
C33_RelistSameMetadata ==
    /\ \A id \in DOMAIN s.tokens :
          SameListing(s, add_token(s, id, s.tokens[id].fee, s.tokens[id].decimals, now),
                      id, now)
    /\ RelistedSame =>
          /\ SameListing(last.pre, Res(last.out.mid, "ok"), last.args.token, last.time)
          /\ s.orders = last.pre.orders

\* a token with open buy and sell orders has been listed again, later than
\* its listing, with the same fee and decimals
C33_Witness ==
    /\ RelistedSame
    /\ last.pre.tokens[last.args.token].timestamp < last.time
    /\ s.tokens[last.args.token].timestamp = last.time
    /\ Has(s.orders, last.args.token)
    /\ s.orders[last.args.token].buyers # {}
    /\ s.orders[last.args.token].sellers # {}

----------------------------------------------------------------------------
(* Properties: trades that fail *)

TradeFailed == last.op = "trade trapped"

C34_RestOrderFailed ==
    /\ TradeFailed
    /\ last.out.res \in {"the order is too small",
                          "not enough funds available for this order size"}
    /\ last.out.st.order_archive # last.pre.order_archive

----------------------------------------------------------------------------
(* Properties: the spread *)

\* C35: no book is crossed: in every state reached by trades, close_order,
\* relisting and clean_up the price of every open buy order of a token is
\* strictly below the price of every open sell order of that token.
C35_BookNotCrossed ==
    \A token \in DOMAIN s.orders :
        \A b \in s.orders[token].buyers : \A a \in s.orders[token].sellers :
            b.price < a.price

\* a limit order has filled the orders within its limit, stopped at an order
\* outside it and left a rest order on the other side of the book
C35_Witness ==
    /\ RestOrderCreated
    /\ last.out.filled > 0
    /\ s.orders[last.args.token].buyers # {}
    /\ s.orders[last.args.token].sellers # {}

----------------------------------------------------------------------------
(* Properties: solvency *)

\* C36: with ledgers that execute every transfer, in every state the main
\* account's balance of each token is at least funds_under_management of the
\* token, and equal to it whenever no deposit and no withdraw is waiting for
\* a ledger.
C36_Solvency ==
    \A token \in TokenIds :
        /\ balance_of(ledger, token, main_account) >= Funds(s, token)
        /\ calls = {} => balance_of(ledger, token, main_account) = Funds(s, token)

----------------------------------------------------------------------------
(* Properties: payouts *)

\* the withdraws of user in flight whose balance has left the pool and has
\* not been paid out by the ledger
UnpaidWithdraws(user, token) ==
    {c \in calls : /\ c.op = "withdraw" /\ c.user = user /\ c.token = token
                   /\ c.reply # "ok"}

\* the deposits of user in flight that the ledger has moved to the main
\* account and that are not credited yet
UncreditedDeposits(user, token) ==
    {c \in calls : /\ c.op = "deposit_liquidity" /\ c.user = user /\ c.token = token
                   /\ c.pc = "transfer" /\ c.reply = "ok"}

\* what the main account holds for user: the pool balance and what is under
\* way to or from the pool
HeldFor(user, token) ==
    Balance(s.pools, token, user)
    + checked_sum([c \in UnpaidWithdraws(user, token) |-> c.balance])
    + checked_sum([c \in UncreditedDeposits(user, token) |-> c.amount])

\* what user had to begin with, in the pool and in the own account
StartOf(user, token) == Balance(LifeStart.pools, token, user) + WalletStart(token, user)

\* C37: the pool entry is removed before the ledger is called, so every
\* payout is matched by a removal: the main account holds exactly what the
\* pools hold and what is under way, no two withdraws of a user in flight
\* carry a balance that the pool still shows or that the other carries, and
\* for every user and token what the user has received and still holds never
\* exceeds what the user put in, whether or not failed withdraws were rolled
\* back in between.
C37_NoDoubleWithdrawal ==
    \A token \in TokenIds :
        /\ balance_of(ledger, token, main_account)
           = Balance(s.pools, token, REVENUE)
             + checked_sum([user \in Traders |-> HeldFor(user, token)])
        /\ \A user \in Traders :
              balance_of(ledger, token, wallet(user))
              + balance_of(ledger, token, user_account(user))
              + HeldFor(user, token)
              <= StartOf(user, token)

\* two withdraws of one user and token are in flight together, each with
\* the balance that the pool showed when it began
C37_Witness ==
    \E c \in calls : \E d \in calls \ {c} :
        /\ c.op = "withdraw" /\ d.op = "withdraw"
        /\ c.user = d.user /\ c.token = d.token
        /\ c.balance > c.fee /\ d.balance > d.fee

\* a withdraw was rejected while a withdraw of the same user and token was
\* in flight
C37_SecondRejected ==
    /\ IsWithdraw
    /\ last.out.res = "amount smaller than the fee"
    /\ UnpaidWithdraws(last.caller, last.args.token) # {}

----------------------------------------------------------------------------
(* Properties: the checks of a split *)

\* the fatal checks of a split in execute_trade
SplitChecks == {"panic: underflow",
                "panic: dust orders are not supported",
                "panic: order overwritten"}

\* C38: no trade is halted by a fatal check of the split: no trade that
\* failed has failed with `underflow`, `dust orders are not supported` or
\* `order overwritten`, that is, for every partial fill the reservation of
\* the order covers those of the remainder and of the piece, the remainder
\* has a volume above its trading fee and its key is not in the book.
C38_SplitNeverHalts == TradeFailed => last.out.res \notin SplitChecks

\* each check of a split, met by a trade
C38_Underflow == TradeFailed /\ last.out.res = "panic: underflow"

C38_Dust == TradeFailed /\ last.out.res = "panic: dust orders are not supported"

C38_Overwritten == TradeFailed /\ last.out.res = "panic: order overwritten"

----------------------------------------------------------------------------
(* Properties: the metadata that an order carries *)

\* the order of entry e carries the listed decimals of its token and the
\* listed fee of the payment token
CarriesListed(e) ==
    /\ Has(s.tokens, e.token)
    /\ e.order.decimals = s.tokens[e.token].decimals
    /\ Has(s.tokens, PAYMENT_TOKEN_ID)
    /\ e.order.payment_token_fee = s.tokens[PAYMENT_TOKEN_ID].fee

\* C39: every open order carries the decimals that its token is listed with
\* and the fee that the payment token is listed with, also after any token,
\* the payment token included, was listed again with another fee or other
\* decimals.
C39_SnapshotConsistency == \A e \in open_orders(s) : CarriesListed(e)

\* what the code keeps: every open order carries the listed decimals of its
\* token
C39_DecimalsAreListed ==
    \A e \in open_orders(s) :
        Has(s.tokens, e.token) /\ e.order.decimals = s.tokens[e.token].decimals

\* the payment token was listed again with another fee while orders are open
C39_PaymentRelisted ==
    /\ Relisted
    /\ last.args.token = PAYMENT_TOKEN_ID
    /\ open_orders(s) # {}

----------------------------------------------------------------------------
(* Properties: what the housekeeping delists *)

\* the token id has its metadata and its pool
Kept(S, id) == Has(S.tokens, id) /\ Has(S.pools, id)

\* C40: after clean_up, the token of every open order has its metadata and
\* its pool, and the payment token has its metadata and its pool while a
\* buy order is open in any book, so that the order can be filled or closed
\* and its funds withdrawn.
C40_CleanUpKeepsReserved ==
    last.op = "clean_up" =>
        \A e \in open_orders(s) :
            /\ Kept(s, e.token)
            /\ e.order.order_type = Buy => Kept(s, PAYMENT_TOKEN_ID)

\* what the code keeps: a token with an open order in its own book is not
\* delisted
C40_BookTokenKept == \A e \in open_orders(s) : Kept(s, e.token)

\* clean_up has delisted the payment token while a buy order is open: no
\* trader can sell into the order, and what closing it returns goes to the
\* pool of a token that is not listed, which withdraw refuses
C40_Stranded ==
    /\ last.op = "clean_up"
    /\ Kept(last.pre, PAYMENT_TOKEN_ID)
    /\ ~Has(s.tokens, PAYMENT_TOKEN_ID)
    /\ \E e \in open_orders(s) :
          /\ e.order.order_type = Buy
          /\ \A trader \in Traders, amount \in Amounts :
                trade(s, Sell, trader, e.token, amount, 0, now).res # "ok"
          /\ close_order(s, e.order.owner, e.token, e.order.amount, e.order.price,
                         e.order.timestamp, Buy).res = "ok"

====
